---- MODULE Spec2Model ----
(***************************************************************************)
(* Model of the JerryScript pool allocator (jerry-core/mem/mem-poolman.cpp *)
(* and mem-pool.cpp) and of the compiler entry (jerry-core/parser/js/      *)
(* parser.cpp).  A definition that bears the name of a function of these   *)
(* files is the translation of that function.                              *)
(***************************************************************************)
EXTENDS Integers, Sequences, FiniteSets, TLC

(* ------------------------------ bounds --------------------------------- *)

\* number of chunked blocks the heap can hand out before it is exhausted
MaxPools == 2

\* MEM_POOL_CHUNKS_NUMBER: chunks per pool (configuration dependent); with
\* three a pool can have its first chunk and another one free and still
\* hold an allocated chunk
PoolChunks == 3

\* at most this many chunks are freed by a collector run made by the heap
MaxGcFrees == 2

\* number_of_list_of_pools_with_free_first_chunk (8 in the source), scaled
\* so that the candidate buckets hold chains of more than one pool
NumLists == 1

(* ----------------------------- constants ------------------------------- *)

NULL == 0

hint_magic_num_value == 32393

\* free_chunks_num is a mem_pool_chunk_index_t (uint8_t)
ChunkIndexModulus == 256

(* --------------------------- heap geometry ----------------------------- *)

PoolIds == 1 .. MaxPools

Chunks == 1 .. (MaxPools * PoolChunks)

\* first chunk of a pool: MEM_POOL_SPACE_START (pool_p)
MEM_POOL_SPACE_START(p) == (p - 1) * PoolChunks + 1

\* chunk with the given index of a pool
MEM_POOL_CHUNK_ADDRESS(p, chunk_index) == MEM_POOL_SPACE_START(p) + chunk_index

\* the block a chunk lies in
mem_heap_get_chunked_block_start(c) == ((c - 1) \div PoolChunks) + 1

ChunksOf(p) == { MEM_POOL_CHUNK_ADDRESS(p, i) : i \in 0 .. (PoolChunks - 1) }

(* --------------------------- chunk contents ---------------------------- *)

\* A chunk is 8 bytes.  A free chunk holds the pointer to the next free
\* chunk; a first chunk holds mem_temp_first_chunk_layout_t during
\* mem_pools_remove_empty_pools; an allocated chunk holds bytes of its owner,
\* of which the allocator can only ever look at the header fields.
FreeCell(n) ==
  [kind |-> "free", next |-> n, next_first |-> NULL, local |-> NULL,
   magic |-> 0, num |-> 0, id |-> 0]

HdrCell(nf, loc, mg, n, i) ==
  [kind |-> "hdr", next |-> NULL, next_first |-> nf, local |-> loc,
   magic |-> mg, num |-> n, id |-> i]

DataCell(mg, i) ==
  [kind |-> "data", next |-> NULL, next_first |-> NULL, local |-> NULL,
   magic |-> mg, num |-> 0, id |-> i]

\* memory that is not part of a resident pool
Unmapped ==
  [kind |-> "none", next |-> NULL, next_first |-> NULL, local |-> NULL,
   magic |-> 0, num |-> 0, id |-> 0]

\* what the bytes of an allocated first chunk can look like through the
\* header layout: no magic, magic with an in-range id, magic with an
\* out-of-range id
Payloads ==
  { DataCell(0, 0), DataCell(hint_magic_num_value, 0),
    DataCell(hint_magic_num_value, NumLists) }

PayloadsFor(c) ==
  IF c = MEM_POOL_SPACE_START(mem_heap_get_chunked_block_start(c))
    THEN Payloads
    ELSE { DataCell(0, 0) }

(* ------------------------------- state --------------------------------- *)

VARIABLES
  mem_free_chunk_p,        \* head of the list of free chunks
  mem_free_chunks_number,  \* recorded number of free chunks
  mem,                     \* contents of every chunk
  heap_blocks,             \* chunked blocks currently held as pools
  allocated,               \* chunks handed out and not yet freed
  op,                      \* the last completed call and its result
  peak,                    \* largest number of live chunks so far
  fault                    \* "none", or how the program stopped

avars == << mem_free_chunk_p, mem_free_chunks_number, mem, heap_blocks,
            allocated, op, peak, fault >>

\* the compiler: statics of parser.cpp and of the modules it drives
VARIABLES
  pc,                    \* "idle", "parsing" or "done" (a call has returned)
  source,                \* the tokens of the source delivered by the lexer
  pos,                   \* index of the current token
  inside_eval,           \* static bool inside_eval
  is_strict,             \* the is_strict parameter of parser_parse_program
  inside_function,       \* static bool inside_function
  scopes,                \* STATIC_STACK (scopes, scopes_tree)
  serializer_scope,      \* scope set by serializer_set_scope (depth, 0: NULL)
  lexer_strict_mode,     \* value last given to lexer_set_strict_mode
  labels,                \* current label set of jsp-label
  frames,                \* C frames of the parse functions in progress
  U8,                    \* STATIC_STACK (U8, uint8_t)
  varg_headers,          \* STATIC_STACK (varg_headers, vm_instr_counter_t)
  function_ends,         \* STATIC_STACK (function_ends, vm_instr_counter_t)
  logical_and_checks,    \* STATIC_STACK (logical_and_checks, vm_instr_counter_t)
  logical_or_checks,     \* STATIC_STACK (logical_or_checks, vm_instr_counter_t)
  conditional_checks,    \* STATIC_STACK (conditional_checks, vm_instr_counter_t)
  jumps_to_end,          \* STATIC_STACK (jumps_to_end, vm_instr_counter_t)
  prop_getters,          \* STATIC_STACK (prop_getters, op_meta)
  next_iterations,       \* STATIC_STACK (next_iterations, vm_instr_counter_t)
  case_clauses,          \* STATIC_STACK (case_clauses, vm_instr_counter_t)
  tries,                 \* STATIC_STACK (tries, vm_instr_counter_t)
  catches,               \* STATIC_STACK (catches, vm_instr_counter_t)
  finallies,             \* STATIC_STACK (finallies, vm_instr_counter_t)
  jsp_reg_id_stack,      \* STATIC_STACK (jsp_reg_id_stack, vm_idx_t)
  jsp_reg_next,          \* static vm_idx_t jsp_reg_next
  jsp_reg_max_for_temps, \* static vm_idx_t jsp_reg_max_for_temps
  jsp_reg_max_for_local_var, \* static vm_idx_t jsp_reg_max_for_local_var
  jsp_reg_max_for_args,  \* static vm_idx_t jsp_reg_max_for_args
  early_error_type,      \* type kept by jsp-early-error
  status,                \* value returned by parser_parse_program
  out_bytecode_data_p,   \* *out_bytecode_data_p
  raised,                \* the early error raised in this compilation, if any
  after_error,           \* the compilation before this one ended in an error
  scope_exit,            \* stack depths at the last dumper_finish_scope and
                         \* at the dumper_new_scope it matches
  call                   \* the dumper or optimiser call made last, its
                         \* arguments and what it returned

pvars == << pc, source, pos, inside_eval, is_strict, inside_function,
           scopes,
            serializer_scope, lexer_strict_mode, labels, frames, U8,
            varg_headers, function_ends, logical_and_checks,
            logical_or_checks, conditional_checks, jumps_to_end,
            prop_getters, next_iterations, case_clauses, tries, catches,
            finallies, jsp_reg_id_stack, jsp_reg_next,
            jsp_reg_max_for_temps, jsp_reg_max_for_local_var,
            jsp_reg_max_for_args, early_error_type, status,
            out_bytecode_data_p, raised, after_error, scope_exit, call >>

vars == << avars, pvars >>

\* the allocator state as one value
Cur ==
  [head |-> mem_free_chunk_p, num |-> mem_free_chunks_number, mem |-> mem,
   pools |-> heap_blocks, allocated |-> allocated]

(* ------------------------- walking the free list ----------------------- *)

\* chunks met from c by following next pointers, stopping at NULL or at the
\* first chunk met twice; the flag tells which
RECURSIVE Walk(_, _, _)
Walk(c, m, seen) ==
  IF c = NULL THEN [chunks |-> seen, cyclic |-> FALSE]
  ELSE IF \E i \in 1 .. Len(seen) : seen[i] = c
    THEN [chunks |-> seen, cyclic |-> TRUE]
    ELSE Walk(m[c].next, m, Append(seen, c))

FreeList(s) == Walk(s.head, s.mem, << >>)

FreeSeq(s) == FreeList(s).chunks

FreeSet(s) == { FreeSeq(s)[i] : i \in 1 .. Len(FreeSeq(s)) }

(* ----------------------------- mem_pool_init --------------------------- *)

mem_pool_init(m, p) ==
  [c \in Chunks |->
     IF c \in ChunksOf(p)
       THEN FreeCell(IF c = MEM_POOL_CHUNK_ADDRESS(p, PoolChunks - 1)
                       THEN NULL ELSE c + 1)
       ELSE m[c]]

(* ----------------------------- mem_pools_free -------------------------- *)

\* the chunk is pushed but mem_free_chunks_number is not incremented
mem_pools_free_NoCount(s, chunk_p) ==
  [s EXCEPT !.mem = [s.mem EXCEPT ![chunk_p] = FreeCell(s.head)],
            !.head = chunk_p,
            !.allocated = s.allocated \ {chunk_p}]

mem_pools_free(s, chunk_p) ==
  [s EXCEPT !.mem = [s.mem EXCEPT ![chunk_p] = FreeCell(s.head)],
            !.head = chunk_p,
            !.num = s.num + 1,
            !.allocated = s.allocated \ {chunk_p}]

(* --------------------- mem_pools_remove_empty_pools -------------------- *)

ListIds == 0 .. (NumLists - 1)

\* take the chunk after prev (or the head) off the common list of free chunks
Unlink(st, prev, next) ==
  IF prev = NULL
    THEN [st EXCEPT !.head = next]
    ELSE [st EXCEPT !.mem = [st.mem EXCEPT ![prev].next = next]]

\* a first chunk that is the head of the common list is not recognised
RECURSIVE Pass1_SkipHead(_, _, _)
Pass1_SkipHead(iter, prev, st) ==
  IF iter = NULL THEN st
  ELSE
    LET next == st.mem[iter].next
        pool_p == mem_heap_get_chunked_block_start(iter)
    IN IF MEM_POOL_SPACE_START(pool_p) = iter /\ prev # NULL
         THEN LET id == st.count % NumLists
                  un == Unlink(st, prev, next)
              IN Pass1_SkipHead(next, prev,
                       [un EXCEPT
                          !.mem = [un.mem EXCEPT ![iter] =
                                     HdrCell(st.lists[id], NULL,
                                             hint_magic_num_value, 1, id)],
                          !.lists = [st.lists EXCEPT ![id] = iter],
                          !.count = st.count + 1])
         ELSE Pass1_SkipHead(next, iter, st)

\* First pass: free chunks that are first in their pool leave the common
\* list, get the temporary layout and enter one of the lists of first chunks.
RECURSIVE Pass1(_, _, _)
Pass1(iter, prev, st) ==
  IF iter = NULL THEN st
  ELSE
    LET next == st.mem[iter].next
        pool_p == mem_heap_get_chunked_block_start(iter)
    IN IF MEM_POOL_SPACE_START(pool_p) = iter
         THEN LET id == st.count % NumLists
                  un == Unlink(st, prev, next)
              IN Pass1(next, prev,
                       [un EXCEPT
                          !.mem = [un.mem EXCEPT ![iter] =
                                     HdrCell(st.lists[id], NULL,
                                             hint_magic_num_value, 1, id)],
                          !.lists = [st.lists EXCEPT ![id] = iter],
                          !.count = st.count + 1])
         ELSE Pass1(next, iter, st)

\* the linear search of a list of first chunks for the given first chunk
RECURSIVE InListOfFirstChunks(_, _, _)
InListOfFirstChunks(iter, first, m) ==
  IF iter = NULL THEN FALSE
  ELSE IF iter = first THEN TRUE
  ELSE InListOfFirstChunks(m[iter].next_first, first, m)

\* the magic number and the id are trusted without the search
IsFirstChunkFree_TrustMagic(st, first) ==
  /\ st.mem[first].magic = hint_magic_num_value
  /\ st.mem[first].id < NumLists

\* is the first chunk of the pool really free, i.e. in the temporary lists
IsFirstChunkFree(st, first) ==
  /\ st.mem[first].magic = hint_magic_num_value
  /\ st.mem[first].id < NumLists
  /\ InListOfFirstChunks(st.lists[st.mem[first].id], first, st.mem)

\* Second pass: every other free chunk whose pool's first chunk is in the
\* temporary lists is counted there and moved to the pool's local list.
RECURSIVE Pass2(_, _, _)
Pass2(iter, prev, st) ==
  IF iter = NULL THEN st
  ELSE
    LET next == st.mem[iter].next
        first == MEM_POOL_SPACE_START(mem_heap_get_chunked_block_start(iter))
    IN IF IsFirstChunkFree(st, first)
         THEN LET un == Unlink(st, prev, next)
                  hd == un.mem[first]
              IN Pass2(next, prev,
                       [un EXCEPT
                          !.mem = [un.mem EXCEPT
                                     ![iter].next = hd.local,
                                     ![first].num = (hd.num + 1) % ChunkIndexModulus,
                                     ![first].local = iter]])
         ELSE Pass2(next, iter, st)

\* last chunk of the chain that starts at c
RECURSIVE ChainTail(_, _, _)
ChainTail(c, m, fuel) ==
  IF m[c].next = NULL \/ fuel = 0 THEN c
  ELSE ChainTail(m[c].next, m, fuel - 1)

\* the first chunk is left out of the count that is compared
IsPoolEmpty_FirstNotCounted(n) == n = PoolChunks + 1

\* is a pool whose first chunk counted n free chunks given back to the heap
IsPoolEmpty(n) == n = PoolChunks

\* the first chunk of a pool that stays goes back to the common list
\* without the chunks of the local list of the pool
Pass3Pool_WithoutLocalList(st, first) ==
  IF IsPoolEmpty(st.mem[first].num)
    THEN LET p == mem_heap_get_chunked_block_start(first)
         IN [st EXCEPT
               !.pools = st.pools \ {p},
               !.mem = [c \in Chunks |->
                          IF c \in ChunksOf(p) THEN Unmapped ELSE st.mem[c]],
               !.num = st.num - PoolChunks,
               !.released = st.released \cup {p}]
    ELSE [st EXCEPT !.mem = [st.mem EXCEPT ![first] = FreeCell(st.head)],
                    !.head = first]

\* Third pass, one pool: free it if all its chunks are free, else put its
\* free chunks back in front of the common list.
Pass3Pool(st, first) ==
  IF IsPoolEmpty(st.mem[first].num)
    THEN LET p == mem_heap_get_chunked_block_start(first)
         IN [st EXCEPT
               !.pools = st.pools \ {p},
               !.mem = [c \in Chunks |->
                          IF c \in ChunksOf(p) THEN Unmapped ELSE st.mem[c]],
               !.num = st.num - PoolChunks,
               !.released = st.released \cup {p}]
    ELSE LET m1 == [st.mem EXCEPT ![first] = FreeCell(st.mem[first].local)]
             tail == ChainTail(first, m1, PoolChunks)
         IN [st EXCEPT
               !.mem = [m1 EXCEPT ![tail].next = st.head],
               !.head = first]

RECURSIVE Pass3Chain(_, _)
Pass3Chain(iter, st) ==
  IF iter = NULL THEN st
  ELSE LET next_p == st.mem[iter].next_first
       IN Pass3Chain(next_p, Pass3Pool(st, iter))

RECURSIVE Pass3(_, _)
Pass3(list_id, st) ==
  IF list_id >= NumLists THEN st
  ELSE Pass3(list_id + 1, Pass3Chain(st.lists[list_id], st))

\* the whole call; the result also names the pools given back to the heap
RemoveEmptyPools(s) ==
  LET st0 == [head |-> s.head, num |-> s.num, mem |-> s.mem,
              pools |-> s.pools, allocated |-> s.allocated,
              lists |-> [i \in ListIds |-> NULL], count |-> 0,
              released |-> {}]
      st1 == Pass1(st0.head, NULL, st0)
  IN IF st1.count = 0
       THEN st1
       ELSE Pass3(0, Pass2(st1.head, NULL, st1))

mem_pools_remove_empty_pools(s) ==
  LET r == RemoveEmptyPools(s)
  IN [head |-> r.head, num |-> r.num, mem |-> r.mem, pools |-> r.pools,
      allocated |-> r.allocated]

(* ------------------------------ the heap ------------------------------- *)

\* blocks mem_heap_alloc_chunked_block can return
FreeBlocks(s) == PoolIds \ s.pools

\* the calls of mem_pools_free a collector run can make while the heap looks
\* for a block: up to MaxGcFrees allocated chunks, each once, in any order
GcRuns(s) ==
  { g \in UNION { [1 .. n -> s.allocated] : n \in 0 .. MaxGcFrees } :
      \A i, j \in DOMAIN g : i # j => g[i] # g[j] }

RECURSIVE FreeAll(_, _)
FreeAll(s, g) ==
  IF g = << >> THEN s
  ELSE FreeAll(mem_pools_free(s, Head(g)), Tail(g))

(* ----------------------------- mem_pools_alloc ------------------------- *)

\* the new pool becomes the list of free chunks
AttachPool(s, p) ==
  [s EXCEPT !.mem = mem_pool_init(s.mem, p),
            !.num = s.num + PoolChunks,
            !.head = MEM_POOL_SPACE_START(p),
            !.pools = s.pools \cup {p}]

\* the count is not looked at again after the heap call
LongPathAfterHeap_NoRecheck(s, p) == AttachPool(s, p)

\* the redundant block is not given back to the heap
LongPathAfterHeap_Leak(s, p) ==
  IF s.num # 0
    THEN [s EXCEPT !.pools = s.pools \cup {p}]
    ELSE AttachPool(s, p)

\* mem_pools_alloc_longpath after mem_heap_alloc_chunked_block returned
\* block p: s is the state the heap (and its collector) left
LongPathAfterHeap(s, p) ==
  IF s.num # 0
    THEN s                \* mem_heap_free_block (pool_state_p)
    ELSE AttachPool(s, p)

\* outcomes of mem_pools_alloc_longpath
mem_pools_alloc_longpath(s) ==
  { [s |-> LongPathAfterHeap(FreeAll(s, g), p), block |-> p, gc |-> g,
     fault |-> "none"] : p \in FreeBlocks(s), g \in GcRuns(s) }
  \cup
  \* the heap has no block left: JERRY_ASSERT (pool_state_p != NULL) fails;
  \* without assertions mem_pool_init writes through the NULL pool
  { [s |-> s, block |-> NULL, gc |-> << >>, fault |-> f] :
      f \in IF FreeBlocks(s) = {} THEN {"assert", "null_deref"} ELSE {} }

\* the chunk leaves the list but mem_free_chunks_number is not decremented
PopChunk_NoCount(s, payload) ==
  [s EXCEPT !.head = s.mem[s.head].next,
            !.mem = [s.mem EXCEPT ![s.head] = payload],
            !.allocated = s.allocated \cup {s.head}]

\* the chunk at the head leaves the list; its bytes now belong to the caller
PopChunk(s, payload) ==
  [s EXCEPT !.num = s.num - 1,
            !.head = s.mem[s.head].next,
            !.mem = [s.mem EXCEPT ![s.head] = payload],
            !.allocated = s.allocated \cup {s.head}]

\* outcomes of mem_pools_alloc
mem_pools_alloc(s) ==
  LET entered == IF s.head = NULL
                   THEN mem_pools_alloc_longpath(s)
                   ELSE { [s |-> s, block |-> NULL, gc |-> << >>,
                           fault |-> "none"] }
  IN UNION
       { IF e.fault # "none"
           THEN { [s |-> e.s, ret |-> NULL, block |-> e.block, gc |-> e.gc,
                   fault |-> e.fault, longpath |-> TRUE] }
           ELSE IF e.s.num = 0 \/ e.s.head = NULL
             THEN { [s |-> e.s, ret |-> NULL, block |-> e.block, gc |-> e.gc,
                     fault |-> "assert", longpath |-> s.head = NULL] }
             ELSE { [s |-> PopChunk(e.s, pl), ret |-> e.s.head,
                     block |-> e.block, gc |-> e.gc, fault |-> "none",
                     longpath |-> s.head = NULL] :
                      pl \in PayloadsFor(e.s.head) }
         : e \in entered }

(* ------------------------------- actions ------------------------------- *)

Range(g) == { g[i] : i \in DOMAIN g }

\* what the allocator looked like when a call was entered
Snapshot(s) == [num |-> s.num, pools |-> s.pools, free |-> FreeSeq(s)]

NoSnapshot == [num |-> 0, pools |-> {}, free |-> << >>]

\* name: the call; ret: the chunk returned (alloc) or given back (free);
\* block, gc: the block the heap returned to the long path and the chunks
\* its collector freed; released: pools given back to the heap; pre: the
\* state at entry of the alloc of an alloc / free pair; pair: this free
\* gave back the chunk the call right before it allocated; again: the call
\* right before this one was mem_pools_remove_empty_pools as well
NoOp(name) ==
  [name |-> name, ret |-> NULL, block |-> NULL, gc |-> {}, released |-> {},
   longpath |-> FALSE, pre |-> NoSnapshot, pair |-> FALSE, again |-> FALSE]

Max(a, b) == IF a > b THEN a ELSE b

Store(s) ==
  /\ mem_free_chunk_p' = s.head
  /\ mem_free_chunks_number' = s.num
  /\ mem' = s.mem
  /\ heap_blocks' = s.pools
  /\ allocated' = s.allocated

\* mem_pools_init
AllocatorInit ==
  /\ mem_free_chunk_p = NULL
  /\ mem_free_chunks_number = 0
  /\ mem = [c \in Chunks |-> Unmapped]
  /\ heap_blocks = {}
  /\ allocated = {}
  /\ op = NoOp("init")
  /\ peak = 0
  /\ fault = "none"

Alloc ==
  /\ fault = "none"
  /\ UNCHANGED pvars
  /\ \E o \in mem_pools_alloc(Cur) :
       /\ Store(o.s)
       /\ op' = [NoOp("alloc") EXCEPT !.ret = o.ret, !.block = o.block,
                                      !.gc = Range(o.gc),
                                      !.longpath = o.longpath,
                                      !.pre = Snapshot(Cur)]
       /\ peak' = Max(peak, Cardinality(o.s.allocated))
       /\ fault' = o.fault

Free ==
  /\ fault = "none"
  /\ UNCHANGED pvars
  /\ \E chunk_p \in allocated :
       /\ Store(mem_pools_free(Cur, chunk_p))
       /\ op' = IF op.name = "alloc" /\ op.ret = chunk_p
                  THEN [NoOp("free") EXCEPT !.ret = chunk_p, !.pair = TRUE,
                                            !.pre = op.pre]
                  ELSE [NoOp("free") EXCEPT !.ret = chunk_p]
       /\ UNCHANGED << peak, fault >>

Compact ==
  /\ fault = "none"
  /\ UNCHANGED pvars
  /\ LET r == RemoveEmptyPools(Cur)
     IN /\ Store(mem_pools_remove_empty_pools(Cur))
        /\ op' = [NoOp("compact") EXCEPT !.released = r.released,
                                         !.again = (op.name = "compact"),
                                         !.pre = Snapshot(Cur)]
  /\ UNCHANGED << peak, fault >>

\* mem_pools_finalize, called when the engine has freed every chunk
Finalize ==
  /\ fault = "none"
  /\ UNCHANGED pvars
  /\ allocated = {}
  /\ LET r == RemoveEmptyPools(Cur)
     IN /\ Store(mem_pools_remove_empty_pools(Cur))
        /\ op' = [NoOp("finalize") EXCEPT !.released = r.released]
        /\ fault' = IF r.num = 0 THEN "none" ELSE "assert"
  /\ UNCHANGED peak

(* ------------------------------ compiler ------------------------------- *)

\* longest source, in tokens
MaxSrcLen == 4

\* reserved operand bytes (vm.h, described in the bytecode image layout)
VM_IDX_REWRITE_GENERAL_CASE == 253

VM_IDX_REWRITE_LITERAL_UID == 254

VM_IDX_EMPTY == 255

\* the register file (vm.h): special registers, then the general ones
VM_REG_SPECIAL_EVAL_RET == 128

VM_REG_SPECIAL_THIS_BINDING == 130

VM_REG_GENERAL_FIRST == 131

VM_REG_GENERAL_LAST == 252

\* vm_instr_counter_t is an unsigned 16-bit position
InstrCounterModulus == 65536

\* vm_idx_t is one byte
IdxModulus == 256

NOT_A_LITERAL == "NOT_A_LITERAL"

\* enumerations of opcodes.h; only their being distinct bytes matters here
opcode_meta_type ==
  [CALL_SITE_INFO |-> 1, VARG |-> 2, VARG_PROP_DATA |-> 3,
   VARG_PROP_GETTER |-> 4, VARG_PROP_SETTER |-> 5, END_WITH |-> 6,
   FUNCTION_END |-> 7,
   CATCH |-> 8, CATCH_EXCEPTION_IDENTIFIER |-> 9, FINALLY |-> 10,
   END_TRY_CATCH_FINALLY |-> 11, SCOPE_CODE_FLAGS |-> 13]

opcode_arg_type_operand ==
  [OPCODE_ARG_TYPE_SIMPLE |-> 0, OPCODE_ARG_TYPE_SMALLINT |-> 1,
   OPCODE_ARG_TYPE_STRING |-> 4, OPCODE_ARG_TYPE_VARIABLE |-> 5]

ECMA_SIMPLE_VALUE_UNDEFINED == 1

ECMA_SIMPLE_VALUE_FALSE == 3

ECMA_SIMPLE_VALUE_TRUE == 4

opcode_scope_code_flags_t ==
  [STRICT |-> 1, NOT_REF_ARGUMENTS_IDENTIFIER |-> 2,
   NOT_REF_EVAL_IDENTIFIER |-> 4, ARGUMENTS_ON_REGISTERS |-> 8,
   NO_LEX_ENV |-> 16]

\* jsp_operand_t: the five kinds of operand
empty_operand == [kind |-> "empty", idx |-> VM_IDX_EMPTY, lit |-> NOT_A_LITERAL]

unknown_operand ==
  [kind |-> "unknown", idx |-> VM_IDX_REWRITE_GENERAL_CASE, lit |-> NOT_A_LITERAL]

idx_const_operand(c) == [kind |-> "idx_const", idx |-> c, lit |-> NOT_A_LITERAL]

reg_operand(r) == [kind |-> "reg", idx |-> r, lit |-> NOT_A_LITERAL]

literal_operand(lit_cp) ==
  [kind |-> "lit", idx |-> VM_IDX_REWRITE_LITERAL_UID, lit |-> lit_cp]

eval_ret_operand == reg_operand(VM_REG_SPECIAL_EVAL_RET)

dump_this_res == reg_operand(VM_REG_SPECIAL_THIS_BINDING)

\* jsp_dmp_gen_instr: the byte written for each operand
jsp_dmp_gen_instr(ops) ==
  [i \in 1..3 |->
     IF i > Len(ops) THEN VM_IDX_EMPTY
     ELSE CASE ops[i].kind = "empty" -> VM_IDX_EMPTY
            [] ops[i].kind = "unknown" -> VM_IDX_REWRITE_GENERAL_CASE
            [] ops[i].kind = "idx_const" -> ops[i].idx
            [] ops[i].kind = "reg" -> ops[i].idx
            [] ops[i].kind = "lit" -> VM_IDX_REWRITE_LITERAL_UID]

\* jsp_dmp_create_op_meta: the instruction and its literal references
jsp_dmp_create_op_meta(opcode, ops) ==
  [op_idx |-> opcode,
   raw_args |-> jsp_dmp_gen_instr(ops),
   lit_id |-> [i \in 1..3 |->
                 IF i <= Len(ops) /\ ops[i].kind = "lit" THEN ops[i].lit
                 ELSE NOT_A_LITERAL]]

\* create_operand_from_tmp_and_lit
create_operand_from_tmp_and_lit(tmp, lit_id) ==
  IF tmp # VM_IDX_REWRITE_LITERAL_UID THEN reg_operand(tmp)
  ELSE literal_operand(lit_id)

NoBytecode == [null |-> TRUE, instrs |-> << >>]

NoScopeExit ==
  [count |-> 0, at_new_scope |-> << >>, at_finish_scope |-> << >>,
   at_end |-> << >>]

NoCall == [name |-> "none", arg |-> 0, kind |-> "none", before |-> << >>,
           after |-> << >>, ret |-> 0, raised |-> FALSE]

\* the compiler state as one value
PCur ==
  [pc |-> pc, source |-> source, pos |-> pos, inside_eval |-> inside_eval,
   is_strict |-> is_strict,
   inside_function |-> inside_function, scopes |-> scopes,
   serializer_scope |-> serializer_scope,
   lexer_strict_mode |-> lexer_strict_mode, labels |-> labels,
   frames |-> frames, U8 |-> U8, varg_headers |-> varg_headers,
   function_ends |-> function_ends,
   logical_and_checks |-> logical_and_checks,
   logical_or_checks |-> logical_or_checks,
   conditional_checks |-> conditional_checks, jumps_to_end |-> jumps_to_end,
   prop_getters |-> prop_getters, next_iterations |-> next_iterations,
   case_clauses |-> case_clauses, tries |-> tries, catches |-> catches,
   finallies |-> finallies, jsp_reg_id_stack |-> jsp_reg_id_stack,
   jsp_reg_next |-> jsp_reg_next,
   jsp_reg_max_for_temps |-> jsp_reg_max_for_temps,
   jsp_reg_max_for_local_var |-> jsp_reg_max_for_local_var,
   jsp_reg_max_for_args |-> jsp_reg_max_for_args,
   early_error_type |-> early_error_type, status |-> status,
   out_bytecode_data_p |-> out_bytecode_data_p, raised |-> raised,
   after_error |-> after_error, scope_exit |-> scope_exit, call |-> call]

\* the statics at program start
PFresh ==
  [pc |-> "idle", source |-> << >>, pos |-> 1, inside_eval |-> FALSE,
   is_strict |-> FALSE,
   inside_function |-> FALSE, scopes |-> << >>, serializer_scope |-> NULL,
   lexer_strict_mode |-> FALSE, labels |-> << >>, frames |-> << >>,
   U8 |-> << >>, varg_headers |-> << >>, function_ends |-> << >>,
   logical_and_checks |-> << >>, logical_or_checks |-> << >>,
   conditional_checks |-> << >>, jumps_to_end |-> << >>,
   prop_getters |-> << >>, next_iterations |-> << >>, case_clauses |-> << >>,
   tries |-> << >>, catches |-> << >>, finallies |-> << >>,
   jsp_reg_id_stack |-> << >>, jsp_reg_next |-> VM_REG_GENERAL_FIRST,
   jsp_reg_max_for_temps |-> VM_REG_GENERAL_FIRST,
   jsp_reg_max_for_local_var |-> VM_IDX_EMPTY,
   jsp_reg_max_for_args |-> VM_IDX_EMPTY, early_error_type |-> "none",
   status |-> "none", out_bytecode_data_p |-> NoBytecode, raised |-> "none",
   after_error |-> FALSE, scope_exit |-> NoScopeExit, call |-> NoCall]

Top(stack) == stack[Len(stack)]

Drop(stack, n) == SubSeq(stack, 1, Len(stack) - n)

\* STACK_PUSH; nothing runs after the jump of an early error
STACK_PUSH(ps, stack, value) ==
  IF ps.pc = "done" THEN ps ELSE [ps EXCEPT ![stack] = Append(@, value)]

\* STACK_DROP
STACK_DROP(ps, stack, n) ==
  IF ps.pc = "done" THEN ps ELSE [ps EXCEPT ![stack] = Drop(@, n)]

scopes_tree_init(type) ==
  [type |-> type, instrs |-> << >>, children |-> << >>,
   strict_mode |-> FALSE, ref_eval |-> FALSE, ref_arguments |-> FALSE,
   contains_with |-> FALSE, contains_try |-> FALSE,
   contains_delete |-> FALSE, contains_functions |-> FALSE,
   variables |-> << >>, param_count |-> 0, local_count |-> 0]

\* serializer_get_current_instr_counter
InstrCounter(ps) ==
  Len(ps.scopes[ps.serializer_scope].instrs) % InstrCounterModulus

\* serializer_get_op_meta
serializer_get_op_meta(ps, oc) == ps.scopes[ps.serializer_scope].instrs[oc + 1]

\* serializer_dump_op_meta: append to the scope the serializer is set to
Dump(ps, instr) ==
  IF ps.pc = "done" THEN ps
  ELSE [ps EXCEPT !.scopes[ps.serializer_scope].instrs = Append(@, instr)]

\* serializer_rewrite_op_meta at instruction counter oc
Rewrite(ps, oc, instr) ==
  IF ps.pc = "done" THEN ps
  ELSE [ps EXCEPT !.scopes[ps.serializer_scope].instrs[oc + 1] = instr]

\* serializer_set_writing_position: the tail from oc on is dropped
serializer_set_writing_position(ps, oc) ==
  IF ps.pc = "done" THEN ps
  ELSE [ps EXCEPT !.scopes[ps.serializer_scope].instrs = SubSeq(@, 1, oc)]

\* an assignment to statics of the dumper or the parser
Set(ps, field, value) ==
  IF ps.pc = "done" THEN ps ELSE [ps EXCEPT ![field] = value]

\* a flag or a count of the scope on top of the stack of scopes
SetScope(ps, field, value) ==
  IF ps.pc = "done" THEN ps
  ELSE [ps EXCEPT !.scopes[Len(ps.scopes)][field] = value]

RECURSIVE Concat(_)
Concat(seqs) ==
  IF seqs = << >> THEN << >> ELSE Head(seqs) \o Concat(Tail(seqs))

\* serializer_merge_scopes_into_bytecode: a scope, then its sub-scopes
Merge(scope) == scope.instrs \o Concat(scope.children)

dump_single_address(ps, opcode, operand) ==
  Dump(ps, jsp_dmp_create_op_meta(opcode, << operand >>))

dump_double_address(ps, opcode, res, obj) ==
  Dump(ps, jsp_dmp_create_op_meta(opcode, << res, obj >>))

dump_triple_address(ps, opcode, res, lhs, rhs) ==
  Dump(ps, jsp_dmp_create_op_meta(opcode, << res, lhs, rhs >>))

\* last_dumped_op_meta
last_dumped_op_meta(ps) == serializer_get_op_meta(ps, InstrCounter(ps) - 1)

\* status for an early error of the type the error module recorded
StatusOfError_AlwaysSyntax(type) == "JSP_STATUS_SYNTAX_ERROR"

StatusOfError(type) ==
  IF type = "JSP_EARLY_ERROR_SYNTAX"
    THEN "JSP_STATUS_SYNTAX_ERROR"
    ELSE "JSP_STATUS_REFERENCE_ERROR"

\* PARSE_ERROR: the error module records the type and jumps to the label
\* set in parser_parse_program, whose else branch then runs and returns
RaiseEarlyError(ps, type) ==
  IF ps.pc = "done" THEN ps
  ELSE [ps EXCEPT !.early_error_type = type,
                  !.raised = type,
                  !.frames = << >>,
                  !.out_bytecode_data_p = NoBytecode,
                  !.labels = << >>,
                  !.status = StatusOfError(type),
                  !.pc = "done"]

\* a parser or dumper function that returns an operand
Res(ps, operand) == [ps |-> ps, op |-> operand]

\* jsp_alloc_reg_for_temp
jsp_alloc_reg_for_temp(ps) ==
  LET next_reg == ps.jsp_reg_next
      a == Set(ps, "jsp_reg_next", (next_reg + 1) % IdxModulus)
  IN IF next_reg > VM_REG_GENERAL_LAST
       THEN Res(RaiseEarlyError(a, "JSP_EARLY_ERROR_SYNTAX"), next_reg)
       ELSE Res(IF a.jsp_reg_max_for_temps < next_reg
                  THEN Set(a, "jsp_reg_max_for_temps", next_reg) ELSE a,
                next_reg)

is_temp_register(ps, reg) ==
  VM_REG_GENERAL_FIRST <= reg /\ reg <= ps.jsp_reg_max_for_temps

tmp_operand(ps) ==
  LET Operand(r) == Res(r.ps, reg_operand(r.op))
  IN Operand(jsp_alloc_reg_for_temp(ps))

\* split_instr_counter: the high and the low byte of a position
split_instr_counter(oc) == << oc \div 256, oc % 256 >>

\* vm_calc_instr_counter_from_idx_idx
vm_calc_instr_counter_from_idx_idx(id1, id2) == id1 * 256 + id2

\* the subtraction of get_diff_from: unsigned, 16 bits wide
DiffOfCounters(current, oc) ==
  (current - oc + InstrCounterModulus) % InstrCounterModulus

\* get_diff_from
get_diff_from(ps, oc) == DiffOfCounters(InstrCounter(ps), oc)

dumper_new_statement(ps) == Set(ps, "jsp_reg_next", VM_REG_GENERAL_FIRST)

\* the depth of every stack of the dumper
StackDepths(ps) ==
  [varg_headers |-> Len(ps.varg_headers),
   function_ends |-> Len(ps.function_ends),
   logical_and_checks |-> Len(ps.logical_and_checks),
   logical_or_checks |-> Len(ps.logical_or_checks),
   conditional_checks |-> Len(ps.conditional_checks),
   jumps_to_end |-> Len(ps.jumps_to_end),
   prop_getters |-> Len(ps.prop_getters),
   next_iterations |-> Len(ps.next_iterations),
   case_clauses |-> Len(ps.case_clauses),
   tries |-> Len(ps.tries),
   catches |-> Len(ps.catches),
   finallies |-> Len(ps.finallies),
   U8 |-> Len(ps.U8),
   jsp_reg_id_stack |-> Len(ps.jsp_reg_id_stack)]

dumper_init(ps) ==
  [ps EXCEPT !.jsp_reg_next = VM_REG_GENERAL_FIRST,
             !.jsp_reg_max_for_temps = VM_REG_GENERAL_FIRST,
             !.jsp_reg_max_for_local_var = VM_IDX_EMPTY,
             !.jsp_reg_max_for_args = VM_IDX_EMPTY,
             !.U8 = << >>, !.varg_headers = << >>, !.function_ends = << >>,
             !.logical_and_checks = << >>, !.logical_or_checks = << >>,
             !.conditional_checks = << >>, !.jumps_to_end = << >>,
             !.prop_getters = << >>, !.next_iterations = << >>,
             !.case_clauses = << >>, !.tries = << >>, !.catches = << >>,
             !.finallies = << >>, !.jsp_reg_id_stack = << >>]

dumper_free(ps) ==
  [ps EXCEPT !.U8 = << >>, !.varg_headers = << >>, !.function_ends = << >>,
             !.logical_and_checks = << >>, !.logical_or_checks = << >>,
             !.conditional_checks = << >>, !.jumps_to_end = << >>,
             !.prop_getters = << >>, !.next_iterations = << >>,
             !.case_clauses = << >>, !.tries = << >>, !.catches = << >>,
             !.finallies = << >>, !.jsp_reg_id_stack = << >>]

dumper_new_scope(ps) ==
  LET a == STACK_PUSH(ps, "jsp_reg_id_stack", ps.jsp_reg_next)
      b == STACK_PUSH(a, "jsp_reg_id_stack", ps.jsp_reg_max_for_temps)
      c == Set(b, "jsp_reg_next", VM_REG_GENERAL_FIRST)
  IN Set(c, "jsp_reg_max_for_temps", VM_REG_GENERAL_FIRST)

dumper_finish_scope(ps) ==
  LET a == Set(ps, "jsp_reg_max_for_temps", Top(ps.jsp_reg_id_stack))
      b == STACK_DROP(a, "jsp_reg_id_stack", 1)
      c == Set(b, "jsp_reg_next", Top(b.jsp_reg_id_stack))
  IN STACK_DROP(c, "jsp_reg_id_stack", 1)

dumper_start_varg_code_sequence(ps) ==
  STACK_PUSH(ps, "jsp_reg_id_stack", ps.jsp_reg_next)

dumper_finish_varg_code_sequence(ps) ==
  STACK_DROP(Set(ps, "jsp_reg_next", Top(ps.jsp_reg_id_stack)),
             "jsp_reg_id_stack", 1)

dump_assignment(ps, operand, type, value) ==
  dump_triple_address(ps, "VM_OP_ASSIGNMENT", operand, idx_const_operand(type),
                      value)

dump_string_assignment(ps, operand, lit_id) ==
  dump_assignment(ps, operand, opcode_arg_type_operand.OPCODE_ARG_TYPE_STRING,
                  literal_operand(lit_id))

dump_string_assignment_res(ps, lit_id) ==
  LET Into(t) == Res(dump_string_assignment(t.ps, t.op, lit_id), t.op)
  IN Into(tmp_operand(ps))

dump_smallint_assignment(ps, operand, uid) ==
  dump_assignment(ps, operand, opcode_arg_type_operand.OPCODE_ARG_TYPE_SMALLINT,
                  idx_const_operand(uid))

dump_smallint_assignment_res(ps, uid) ==
  LET Into(t) == Res(dump_smallint_assignment(t.ps, t.op, uid), t.op)
  IN Into(tmp_operand(ps))

dump_undefined_assignment(ps, operand) ==
  dump_assignment(ps, operand, opcode_arg_type_operand.OPCODE_ARG_TYPE_SIMPLE,
                  idx_const_operand(ECMA_SIMPLE_VALUE_UNDEFINED))

dump_variable_assignment(ps, res, var) ==
  dump_assignment(ps, res, opcode_arg_type_operand.OPCODE_ARG_TYPE_VARIABLE, var)

dump_prop_getter(ps, res, obj, prop) ==
  dump_triple_address(ps, "VM_OP_PROP_GETTER", res, obj, prop)

dump_prop_getter_res(ps, obj, prop) ==
  LET Into(t) == Res(dump_prop_getter(t.ps, t.op, obj, prop), t.op)
  IN Into(tmp_operand(ps))

dump_prop_setter(ps, res, obj, prop) ==
  dump_triple_address(ps, "VM_OP_PROP_SETTER", res, obj, prop)

\* the object and the property name of a saved prop_getter
GetterObj(last) == create_operand_from_tmp_and_lit(last.raw_args[2], last.lit_id[2])

GetterProp(last) == create_operand_from_tmp_and_lit(last.raw_args[3], last.lit_id[3])

dump_prop_setter_op_meta(ps, last, operand) ==
  dump_triple_address(ps, "VM_OP_PROP_SETTER", GetterObj(last),
                      GetterProp(last), operand)

\* dump_triple_address_and_prop_setter_res without the getter of the target
dump_triple_address_and_prop_setter_res_WithoutGetter(ps, opcode, last, operand) ==
  LET obj == GetterObj(last)
      prop == GetterProp(last)
      Into(t) ==
        Res(dump_prop_setter(
              dump_triple_address(t.ps, opcode, t.op, t.op, operand),
              obj, prop, t.op),
            t.op)
  IN Into(tmp_operand(ps))

dump_triple_address_and_prop_setter_res(ps, opcode, last, operand) ==
  LET obj == GetterObj(last)
      prop == GetterProp(last)
      Into(t) ==
        Res(dump_prop_setter(
              dump_triple_address(t.ps, opcode, t.op, t.op, operand),
              obj, prop, t.op),
            t.op)
  IN Into(dump_prop_getter_res(ps, obj, prop))

dump_prop_setter_or_triple_address_res(ps, opcode, res, operand) ==
  IF res.kind = "reg"
    THEN LET Drop1(r) == Res(STACK_DROP(r.ps, "prop_getters", 1), r.op)
         IN Drop1(dump_triple_address_and_prop_setter_res(
                    ps, opcode, Top(ps.prop_getters), operand))
    ELSE Res(dump_triple_address(ps, opcode, res, res, operand), res)

\* check_operand_in_prefix_operation
check_operand_in_prefix_operation(ps, obj) ==
  IF last_dumped_op_meta(ps).op_idx # "VM_OP_PROP_GETTER" /\ obj.kind = "reg"
    THEN RaiseEarlyError(ps, "JSP_EARLY_ERROR_REFERENCE")
    ELSE ps

dump_pre_increment(ps, res, obj) ==
  dump_double_address(check_operand_in_prefix_operation(ps, obj),
                      "VM_OP_PRE_INCR", res, obj)

dump_pre_increment_res(ps, operand) ==
  LET Into(t) == Res(dump_pre_increment(t.ps, t.op, operand), t.op)
  IN Into(tmp_operand(ps))

\* start_dumping_assignment_expression
start_dumping_assignment_expression(ps, lhs) ==
  IF lhs.kind # "reg" THEN ps
  ELSE LET last == last_dumped_op_meta(ps)
       IN IF last.op_idx = "VM_OP_PROP_GETTER"
            THEN STACK_PUSH(
                   serializer_set_writing_position(ps, InstrCounter(ps) - 1),
                   "prop_getters", last)
            ELSE RaiseEarlyError(ps, "JSP_EARLY_ERROR_REFERENCE")

\* dump_prop_setter_or_variable_assignment_res
dump_prop_setter_or_variable_assignment_res(ps, res, operand) ==
  IF res.kind = "reg"
    THEN Res(STACK_DROP(dump_prop_setter_op_meta(ps, Top(ps.prop_getters), operand),
                        "prop_getters", 1), operand)
    ELSE LET last == last_dumped_op_meta(ps)
         IN IF /\ Len(ps.varg_headers) = 0
               /\ last.op_idx \in {"VM_OP_ASSIGNMENT", "VM_OP_ADDITION"}
               /\ is_temp_register(ps, last.raw_args[1])
              THEN Res(Rewrite(ps, InstrCounter(ps) - 1,
                         [last EXCEPT !.raw_args[1] = res.idx,
                                      !.lit_id[1] = res.lit]), res)
              ELSE Res(dump_variable_assignment(ps, res, operand), operand)

dump_jump_to_end_for_rewrite(ps) ==
  dump_double_address(STACK_PUSH(ps, "jumps_to_end", InstrCounter(ps)),
                      "VM_OP_JMP_DOWN", unknown_operand, unknown_operand)

\* an instruction with its two position bytes set to the halves of oc
WithPosition(om, i, j, oc) ==
  [om EXCEPT !.raw_args[i] = split_instr_counter(oc)[1],
             !.raw_args[j] = split_instr_counter(oc)[2]]

rewrite_jump_to_end(ps) ==
  LET oc == Top(ps.jumps_to_end)
  IN STACK_DROP(Rewrite(ps, oc, WithPosition(serializer_get_op_meta(ps, oc),
                                             1, 2, get_diff_from(ps, oc))),
                "jumps_to_end", 1)

dumper_set_next_interation_target(ps) ==
  STACK_PUSH(ps, "next_iterations", InstrCounter(ps))

\* dump_continue_iterations_check whose jump goes one instruction further up
dump_continue_iterations_check_OneFurther(ps, operand) ==
  LET ids == split_instr_counter(get_diff_from(ps, Top(ps.next_iterations) - 1))
      a == IF operand.kind = "empty"
             THEN dump_double_address(ps, "VM_OP_JMP_UP",
                    idx_const_operand(ids[1]), idx_const_operand(ids[2]))
             ELSE dump_triple_address(ps, "VM_OP_IS_TRUE_JMP_UP", operand,
                    idx_const_operand(ids[1]), idx_const_operand(ids[2]))
  IN STACK_DROP(a, "next_iterations", 1)

dump_continue_iterations_check(ps, operand) ==
  LET ids == split_instr_counter(get_diff_from(ps, Top(ps.next_iterations)))
      a == IF operand.kind = "empty"
             THEN dump_double_address(ps, "VM_OP_JMP_UP",
                    idx_const_operand(ids[1]), idx_const_operand(ids[2]))
             ELSE dump_triple_address(ps, "VM_OP_IS_TRUE_JMP_UP", operand,
                    idx_const_operand(ids[1]), idx_const_operand(ids[2]))
  IN STACK_DROP(a, "next_iterations", 1)

dump_function_end_for_rewrite(ps) ==
  dump_triple_address(STACK_PUSH(ps, "function_ends", InstrCounter(ps)),
                      "VM_OP_META",
                      idx_const_operand(opcode_meta_type.FUNCTION_END),
                      unknown_operand, unknown_operand)

RECURSIVE SumLen(_)
SumLen(seqs) == IF seqs = << >> THEN 0 ELSE Len(Head(seqs)) + SumLen(Tail(seqs))

\* serializer_count_instrs_in_subscopes
serializer_count_instrs_in_subscopes(ps) ==
  SumLen(ps.scopes[ps.serializer_scope].children) % InstrCounterModulus

rewrite_function_end(ps) ==
  LET top == Top(ps.function_ends)
      oc == (get_diff_from(ps, top) + serializer_count_instrs_in_subscopes(ps))
              % InstrCounterModulus
  IN STACK_DROP(Rewrite(ps, top, WithPosition(serializer_get_op_meta(ps, top),
                                              2, 3, oc)),
                "function_ends", 1)

dumper_decrement_function_end_pos_Kept(ps) ==
  STACK_PUSH(STACK_DROP(ps, "function_ends", 1), "function_ends",
             Top(ps.function_ends))

dumper_decrement_function_end_pos(ps) ==
  LET oc == (Top(ps.function_ends) - 1 + InstrCounterModulus) % InstrCounterModulus
  IN STACK_PUSH(STACK_DROP(ps, "function_ends", 1), "function_ends", oc)

dump_ret(ps) == Dump(ps, jsp_dmp_create_op_meta("VM_OP_RET", << >>))

dump_retval(ps, operand) == dump_single_address(ps, "VM_OP_RETVAL", operand)

dump_with_for_rewrite(ps, operand) ==
  dump_triple_address(ps, "VM_OP_WITH", operand, unknown_operand, unknown_operand)

rewrite_with(ps, oc) ==
  Rewrite(ps, oc, WithPosition(serializer_get_op_meta(ps, oc), 2, 3,
                               get_diff_from(ps, oc)))

dump_with_end(ps) ==
  dump_triple_address(ps, "VM_OP_META",
                      idx_const_operand(opcode_meta_type.END_WITH),
                      empty_operand, empty_operand)

dump_try_for_rewrite(ps) ==
  dump_double_address(STACK_PUSH(ps, "tries", InstrCounter(ps)),
                      "VM_OP_TRY_BLOCK", unknown_operand, unknown_operand)

rewrite_try(ps) ==
  LET oc == Top(ps.tries)
  IN STACK_DROP(Rewrite(ps, oc, WithPosition(serializer_get_op_meta(ps, oc),
                                             1, 2, get_diff_from(ps, oc))),
                "tries", 1)

dump_catch_for_rewrite(ps, operand) ==
  LET a == dump_triple_address(STACK_PUSH(ps, "catches", InstrCounter(ps)),
                               "VM_OP_META",
                               idx_const_operand(opcode_meta_type.CATCH),
                               unknown_operand, unknown_operand)
  IN dump_triple_address(a, "VM_OP_META",
        idx_const_operand(opcode_meta_type.CATCH_EXCEPTION_IDENTIFIER),
        operand, empty_operand)

rewrite_catch_WithoutDrop(ps) ==
  LET oc == Top(ps.catches)
  IN Rewrite(ps, oc, WithPosition(serializer_get_op_meta(ps, oc),
                                  2, 3, get_diff_from(ps, oc)))

rewrite_catch(ps) ==
  LET oc == Top(ps.catches)
  IN STACK_DROP(Rewrite(ps, oc, WithPosition(serializer_get_op_meta(ps, oc),
                                             2, 3, get_diff_from(ps, oc))),
                "catches", 1)

dump_finally_for_rewrite(ps) ==
  dump_triple_address(STACK_PUSH(ps, "finallies", InstrCounter(ps)),
                      "VM_OP_META",
                      idx_const_operand(opcode_meta_type.FINALLY),
                      unknown_operand, unknown_operand)

rewrite_finally(ps) ==
  LET oc == Top(ps.finallies)
  IN STACK_DROP(Rewrite(ps, oc, WithPosition(serializer_get_op_meta(ps, oc),
                                             2, 3, get_diff_from(ps, oc))),
                "finallies", 1)

dump_end_try_catch_finally(ps) ==
  dump_triple_address(ps, "VM_OP_META",
                      idx_const_operand(opcode_meta_type.END_TRY_CATCH_FINALLY),
                      empty_operand, empty_operand)

dump_boolean_assignment(ps, operand, is_true) ==
  dump_triple_address(ps, "VM_OP_ASSIGNMENT", operand,
     idx_const_operand(opcode_arg_type_operand.OPCODE_ARG_TYPE_SIMPLE),
     idx_const_operand(IF is_true THEN ECMA_SIMPLE_VALUE_TRUE
                       ELSE ECMA_SIMPLE_VALUE_FALSE))

\* jsp_early_error_check_delete: `delete` of an identifier in strict code
jsp_early_error_check_delete(ps, strict) ==
  IF strict THEN RaiseEarlyError(ps, "JSP_EARLY_ERROR_SYNTAX") ELSE ps

dump_delete(ps, res, operand, strict) ==
  LET last == last_dumped_op_meta(ps)
  IN IF operand.kind = "lit"
       THEN dump_double_address(jsp_early_error_check_delete(ps, strict),
                                "VM_OP_DELETE_VAR", res, operand)
     ELSE IF last.op_idx = "VM_OP_PROP_GETTER"
       THEN dump_triple_address(
              serializer_set_writing_position(ps, InstrCounter(ps) - 1),
              "VM_OP_DELETE_PROP", res, GetterObj(last), GetterProp(last))
     ELSE dump_boolean_assignment(ps, res, TRUE)

dump_delete_res(ps, operand, strict) ==
  LET Into(t) == Res(dump_delete(t.ps, t.op, operand, strict), t.op)
  IN Into(tmp_operand(ps))

dump_addition_res(ps, lhs, rhs) ==
  LET Into(t) == Res(dump_triple_address(t.ps, "VM_OP_ADDITION", t.op, lhs, rhs),
                     t.op)
  IN Into(tmp_operand(ps))

start_dumping_case_clauses(ps) ==
  STACK_PUSH(STACK_PUSH(ps, "U8", Len(ps.case_clauses) % IdxModulus),
             "U8", Len(ps.case_clauses) % IdxModulus)

dump_case_clause_check_for_rewrite(ps, switch_expr, case_expr) ==
  LET Jump(a, res) ==
        dump_triple_address(STACK_PUSH(a, "case_clauses", InstrCounter(a)),
                            "VM_OP_IS_TRUE_JMP_DOWN", res, unknown_operand,
                            unknown_operand)
      Check(t) ==
        Jump(dump_triple_address(t.ps, "VM_OP_EQUAL_VALUE_TYPE", t.op,
                                 switch_expr, case_expr),
             t.op)
  IN Check(tmp_operand(ps))

dump_default_clause_check_for_rewrite(ps) ==
  dump_double_address(STACK_PUSH(ps, "case_clauses", InstrCounter(ps)),
                      "VM_OP_JMP_DOWN", unknown_operand, unknown_operand)

rewrite_case_clause(ps) ==
  IF ps.pc = "done" THEN ps
  ELSE LET head == Len(ps.U8) - 1
           jmp_oc == ps.case_clauses[ps.U8[head] + 1]
           a == Rewrite(ps, jmp_oc,
                        WithPosition(serializer_get_op_meta(ps, jmp_oc), 2, 3,
                                     get_diff_from(ps, jmp_oc)))
       IN [a EXCEPT !.U8[head] = (@ + 1) % IdxModulus]

rewrite_default_clause(ps) ==
  LET jmp_oc == Top(ps.case_clauses)
  IN Rewrite(ps, jmp_oc, WithPosition(serializer_get_op_meta(ps, jmp_oc), 1, 2,
                                      get_diff_from(ps, jmp_oc)))

finish_dumping_case_clauses(ps) ==
  STACK_DROP(STACK_DROP(ps, "case_clauses", Len(ps.case_clauses) - Top(ps.U8)),
             "U8", 2)

dump_scope_code_flags_for_rewrite(ps) ==
  dump_triple_address(ps, "VM_OP_META",
                      idx_const_operand(opcode_meta_type.SCOPE_CODE_FLAGS),
                      unknown_operand, empty_operand)

rewrite_scope_code_flags(ps, scope_code_flags_oc, scope_flags) ==
  Rewrite(ps, scope_code_flags_oc,
          [serializer_get_op_meta(ps, scope_code_flags_oc) EXCEPT
             !.raw_args[2] = scope_flags])

dump_reg_var_decl_for_rewrite(ps) ==
  dump_triple_address(ps, "VM_OP_REG_VAR_DECL", unknown_operand,
                      unknown_operand, unknown_operand)

\* the three counts rewrite_reg_var_decl writes, computed in the order of
\* its statements: the cursor of the locals is reset before the branch for
\* the arguments reads it
reg_var_decl_counts(ps) ==
  LET local_var_at_args ==
        IF ps.jsp_reg_max_for_local_var # VM_IDX_EMPTY
          THEN VM_IDX_EMPTY ELSE ps.jsp_reg_max_for_local_var
  IN [tmp_regs_num |->
        (ps.jsp_reg_max_for_temps - VM_REG_GENERAL_FIRST + 1) % IdxModulus,
      local_var_regs_num |->
        IF ps.jsp_reg_max_for_local_var # VM_IDX_EMPTY
          THEN (ps.jsp_reg_max_for_local_var - ps.jsp_reg_max_for_temps)
                 % IdxModulus
          ELSE 0,
      arg_regs_num |->
        IF ps.jsp_reg_max_for_args # VM_IDX_EMPTY
          THEN IF local_var_at_args # VM_IDX_EMPTY
                 THEN (ps.jsp_reg_max_for_args - local_var_at_args) % IdxModulus
                 ELSE (ps.jsp_reg_max_for_args - ps.jsp_reg_max_for_temps)
                        % IdxModulus
          ELSE 0]

rewrite_reg_var_decl(ps, reg_var_decl_oc) ==
  LET n == reg_var_decl_counts(ps)
      a == Rewrite(ps, reg_var_decl_oc,
             [serializer_get_op_meta(ps, reg_var_decl_oc) EXCEPT
                !.raw_args[1] = n.tmp_regs_num,
                !.raw_args[2] = n.local_var_regs_num,
                !.raw_args[3] = n.arg_regs_num])
  IN Set(Set(a, "jsp_reg_max_for_local_var", VM_IDX_EMPTY),
         "jsp_reg_max_for_args", VM_IDX_EMPTY)

\* is the value of statements stored for eval at this place
StoresEvalResult(ps) == ps.inside_eval /\ ~ps.inside_function

NoFrame(kind) ==
  [kind |-> kind, was_in_function |-> FALSE, masked_label_set |-> << >>,
   scope_code_flags_oc |-> 0, reg_var_decl_oc |-> 0,
   is_try_replace_local_vars_with_regs |-> FALSE, in_prologue |-> FALSE,
   depths |-> << >>, oc |-> 0, expr |-> empty_operand,
   outermost |-> 0, named |-> FALSE, is_full |-> TRUE, is_raised |-> FALSE,
   operand |-> empty_operand, count |-> 0,
   clauses |-> << >>, jumps |-> << >>, bodies |-> << >>, saved |-> << >>]

\* parse_source_element_list up to its first source element; the frame
\* keeps the positions of the two templates.  The directive prologue is
\* looked at as its tokens arrive (UseStrictDirective).
SourceElementListBegin(ps, frame) ==
  LET AfterEvalRet(d, scope_code_flags_oc, reg_var_decl_oc) ==
        STACK_PUSH(d, "frames",
          [frame EXCEPT !.scope_code_flags_oc = scope_code_flags_oc,
                        !.reg_var_decl_oc = reg_var_decl_oc,
                        !.in_prologue = TRUE,
                        !.depths = StackDepths(ps)])
      AfterRegVarDecl(c, scope_code_flags_oc, reg_var_decl_oc) ==
        AfterEvalRet(IF StoresEvalResult(c)
                       THEN dump_undefined_assignment(c, eval_ret_operand) ELSE c,
                     scope_code_flags_oc, reg_var_decl_oc)
      AfterFlags(b, scope_code_flags_oc) ==
        AfterRegVarDecl(dump_reg_var_decl_for_rewrite(b), scope_code_flags_oc,
                        InstrCounter(b))
      AfterNewScope(a) ==
        AfterFlags(dump_scope_code_flags_for_rewrite(a), InstrCounter(a))
  IN AfterNewScope(dumper_new_scope(ps))

\* the flags parse_source_element_list derives from the scope itself
ScopeFlagsOf(tree) ==
  (IF tree.strict_mode THEN opcode_scope_code_flags_t.STRICT ELSE 0)
  + (IF ~tree.ref_arguments
       THEN opcode_scope_code_flags_t.NOT_REF_ARGUMENTS_IDENTIFIER ELSE 0)
  + (IF ~tree.ref_eval
       THEN opcode_scope_code_flags_t.NOT_REF_EVAL_IDENTIFIER ELSE 0)

may_replace_vars_with_regs_IgnoringWith(tree) ==
  /\ ~tree.ref_eval
  /\ ~tree.ref_arguments
  /\ ~tree.contains_try
  /\ ~tree.contains_delete
  /\ ~tree.contains_functions

may_replace_vars_with_regs(tree) ==
  /\ ~tree.ref_eval
  /\ ~tree.ref_arguments
  /\ ~tree.contains_with
  /\ ~tree.contains_try
  /\ ~tree.contains_delete
  /\ ~tree.contains_functions

dumper_start_move_of_vars_to_regs(ps) ==
  [ps EXCEPT !.jsp_reg_max_for_local_var = ps.jsp_reg_max_for_temps]

\* dumper_start_move_of_args_to_regs: the state and the value returned
dumper_start_move_of_args_to_regs(ps, args_num) ==
  LET top == IF ps.jsp_reg_max_for_local_var = VM_IDX_EMPTY
               THEN ps.jsp_reg_max_for_temps
               ELSE ps.jsp_reg_max_for_local_var
  IN IF args_num + top >= VM_REG_GENERAL_LAST
       THEN [ps |-> ps, ok |-> FALSE]
       ELSE [ps |-> [ps EXCEPT !.jsp_reg_max_for_args = top], ok |-> TRUE]

\* the operands of an instruction in which an identifier is looked for
ReplaceableArgs_All(om) == {1, 2, 3}

ReplaceableArgs(om) ==
  IF /\ om.op_idx = "VM_OP_ASSIGNMENT"
     /\ om.raw_args[2] # opcode_arg_type_operand.OPCODE_ARG_TYPE_VARIABLE
    THEN {1}
  ELSE IF /\ om.op_idx = "VM_OP_META"
          /\ om.raw_args[1] \in {opcode_meta_type.VARG_PROP_DATA,
                                 opcode_meta_type.VARG_PROP_GETTER,
                                 opcode_meta_type.VARG_PROP_SETTER}
    THEN {1, 3}
  ELSE {1, 2, 3}

\* the loop body of dumper_try_replace_identifier_name_with_reg
ReplaceInInstr(om, lit_cp, reg) ==
  LET hit == {i \in ReplaceableArgs(om) : om.lit_id[i] = lit_cp}
      LitId(i) == IF i \in hit THEN NOT_A_LITERAL ELSE om.lit_id[i]
      RawArg(i) == IF i \in hit THEN reg ELSE om.raw_args[i]
  IN [om EXCEPT !.lit_id = << LitId(1), LitId(2), LitId(3) >>,
                !.raw_args = << RawArg(1), RawArg(2), RawArg(3) >>]

\* dumper_try_replace_identifier_name_with_reg on the scope on top; every
\* replacement is noted in call.after, with the instructions of the scope
\* before and after it
dumper_try_replace_identifier_name_with_reg(ps, lit_cp, is_arg) ==
  LET n == Len(ps.scopes)
      cursor == IF is_arg THEN "jsp_reg_max_for_args"
                ELSE "jsp_reg_max_for_local_var"
      reg == (ps[cursor] + 1) % IdxModulus
  IN IF ~is_arg /\ ps.jsp_reg_max_for_local_var = VM_REG_GENERAL_LAST
       THEN [ps |-> ps, ok |-> FALSE]
       ELSE [ps |-> [ps EXCEPT
                       ![cursor] = reg,
                       !.scopes[n].instrs =
                          [i \in 1..Len(@) |-> ReplaceInInstr(@[i], lit_cp, reg)],
                       !.call.after = Append(@,
                          [lit_cp |-> lit_cp, is_arg |-> is_arg, reg |-> reg,
                           temps |-> ps.jsp_reg_max_for_temps,
                           before |-> ps.scopes[n].instrs,
                           after |-> [i \in 1..Len(ps.scopes[n].instrs) |->
                                        ReplaceInInstr(ps.scopes[n].instrs[i],
                                                       lit_cp, reg)]])],
             ok |-> TRUE]

dumper_alloc_reg_for_unused_arg(ps) ==
  [ps EXCEPT !.jsp_reg_max_for_args = (@ + 1) % IdxModulus]

RemoveAt(seq, i) == SubSeq(seq, 1, i - 1) \o SubSeq(seq, i + 1, Len(seq))

\* the loop of parse_source_element_list over the variables of the scope
RECURSIVE MoveVarsToRegs(_, _)
MoveVarsToRegs(ps, variable_pos) ==
  LET n == Len(ps.scopes)
      tree == ps.scopes[n]
      variable == tree.variables[variable_pos + 1]
      r == dumper_try_replace_identifier_name_with_reg(ps, variable.lit_id,
                                                       variable.is_param)
  IN IF variable_pos >= Len(tree.variables) THEN ps
     ELSE IF variable.is_param THEN MoveVarsToRegs(ps, variable_pos + 1)
     ELSE IF ~r.ok THEN MoveVarsToRegs(r.ps, variable_pos + 1)
     ELSE MoveVarsToRegs(
            [r.ps EXCEPT !.scopes[n].variables = RemoveAt(@, variable_pos + 1),
                         !.scopes[n].local_count = @ - 1],
            variable_pos)

IsMeta(om, type) == om.op_idx = "VM_OP_META" /\ om.raw_args[1] = type

\* the vargs of the formal parameters follow the header of the function
RECURSIVE FunctionEndPos(_, _)
FunctionEndPos(instrs, at) ==
  IF IsMeta(instrs[at + 1], opcode_meta_type.FUNCTION_END) THEN at
  ELSE FunctionEndPos(instrs, at + 1)

\* a name given to several parameters is kept for the last of them
MarkDuplicatedArgs(instrs, function_end_pos) ==
  [i \in 1..Len(instrs) |->
     IF /\ i - 1 >= 1
        /\ i - 1 < function_end_pos
        /\ \E j \in (i + 1)..function_end_pos :
             instrs[j].lit_id[2] = instrs[i].lit_id[2]
       THEN [instrs[i] EXCEPT !.raw_args[2] = VM_IDX_EMPTY,
                              !.lit_id[2] = NOT_A_LITERAL]
       ELSE instrs[i]]

\* the last loop of the optimisation: a register for every parameter, its
\* varg removed; r carries the state and the two positions of the caller.
\* Every removal is noted in call.before, with the instructions of the
\* scope and the three positions after it.
RECURSIVE MoveArgsToRegs(_)
MoveArgsToRegs(r) ==
  LET n == Len(r.ps.scopes)
      meta_opm == r.ps.scopes[n].instrs[2]
      a == IF meta_opm.raw_args[2] = VM_IDX_EMPTY
             THEN dumper_alloc_reg_for_unused_arg(r.ps)
             ELSE dumper_try_replace_identifier_name_with_reg(
                    r.ps, meta_opm.lit_id[2], TRUE).ps
      b == [a EXCEPT !.scopes[n].instrs = RemoveAt(@, 2)]
      Removed(d) ==
        [ps |-> [d EXCEPT !.call.before = Append(@,
                   [instrs |-> d.scopes[n].instrs,
                    reg_var_decl_oc |-> r.reg_var_decl_oc - 1,
                    scope_code_flags_oc |-> r.scope_code_flags_oc - 1,
                    function_end |-> Top(d.function_ends)])],
         reg_var_decl_oc |-> r.reg_var_decl_oc - 1,
         scope_code_flags_oc |-> r.scope_code_flags_oc - 1,
         scope_flags |-> r.scope_flags]
  IN IF IsMeta(meta_opm, opcode_meta_type.FUNCTION_END) THEN r
     ELSE MoveArgsToRegs(Removed(dumper_decrement_function_end_pos(b)))

\* the header of the function with its count of arguments set to none
HeaderWithoutArgs(header_opm) ==
  IF header_opm.op_idx = "VM_OP_FUNC_EXPR_N"
    THEN [header_opm EXCEPT !.raw_args[3] = 0]
    ELSE [header_opm EXCEPT !.raw_args[2] = 0]

\* the optimisation pass of parse_source_element_list; the header written
\* back with no arguments is the copy taken before the variables are moved
OptimizeScope(ps, frame, scope_flags) ==
  LET n == Len(ps.scopes)
      fe_scope_tree == ps.scopes[n]
      unchanged == [ps |-> ps, reg_var_decl_oc |-> frame.reg_var_decl_oc,
                    scope_code_flags_oc |-> frame.scope_code_flags_oc,
                    scope_flags |-> scope_flags]
      header_opm == fe_scope_tree.instrs[1]
      function_end_pos == FunctionEndPos(fe_scope_tree.instrs, 1)
      AfterArgs(a, m) ==
        IF ~m.ok THEN [unchanged EXCEPT !.ps = a]
        ELSE MoveArgsToRegs(
               [unchanged EXCEPT
                  !.ps = [m.ps EXCEPT !.scopes[n].instrs =
                            MarkDuplicatedArgs(
                              [@ EXCEPT ![1] = HeaderWithoutArgs(header_opm)],
                              function_end_pos)],
                  !.scope_flags = scope_flags
                    + opcode_scope_code_flags_t.ARGUMENTS_ON_REGISTERS
                    + opcode_scope_code_flags_t.NO_LEX_ENV])
      AfterVars(a) ==
        AfterArgs(a, dumper_start_move_of_args_to_regs(a, a.scopes[n].param_count))
  IN IF ~(/\ frame.is_try_replace_local_vars_with_regs
          /\ fe_scope_tree.type = "function"
          /\ may_replace_vars_with_regs(fe_scope_tree))
       THEN unchanged
     ELSE AfterVars(MoveVarsToRegs(dumper_start_move_of_vars_to_regs(ps), 0))

\* parse_source_element_list after its last source element
SourceElementListEnd(ps) ==
  LET frame == Top(ps.frames)
      AfterFinish(o, a, c) ==
        [c EXCEPT !.scope_exit =
           [count |-> IF ps.scope_exit.count < 2 THEN ps.scope_exit.count + 1 ELSE 2,
            at_new_scope |-> frame.depths,
            at_finish_scope |-> StackDepths(c),
            at_end |-> << >>],
                  !.call =
           [NoCall EXCEPT !.name = "parse_source_element_list",
                          !.before = [tree |-> Top(ps.scopes),
                                      is_try |-> frame.is_try_replace_local_vars_with_regs,
                                      temps |-> ps.jsp_reg_max_for_temps],
                          !.after = [tree |-> Top(c.scopes),
                                     replaced |-> a.call.after,
                                     removed |-> a.call.before,
                                     scope_flags |-> o.scope_flags,
                                     counts |-> reg_var_decl_counts(a),
                                     local_var |-> a.jsp_reg_max_for_local_var,
                                     args |-> a.jsp_reg_max_for_args]]]
      AfterFlags(o, a) ==
        AfterFinish(o, a,
                    dumper_finish_scope(rewrite_reg_var_decl(a, o.reg_var_decl_oc)))
      AfterOptimize(o) ==
        AfterFlags(o, rewrite_scope_code_flags(o.ps, o.scope_code_flags_oc,
                                               o.scope_flags))
  IN AfterOptimize(OptimizeScope([ps EXCEPT !.call = NoCall], frame,
                                 ScopeFlagsOf(Top(ps.scopes))))

dump_variable_assignment_res(ps, var) ==
  LET Into(t) == Res(dump_variable_assignment(t.ps, t.op, var), t.op)
  IN Into(tmp_operand(ps))

dump_assignment_of_lhs_if_literal(ps, lhs) ==
  IF lhs.kind = "lit" THEN dump_variable_assignment_res(ps, lhs) ELSE Res(ps, lhs)

\* the templates at the positions ocs get the distance to the current one
RewriteJumps(ps, ocs) ==
  IF ps.pc = "done" THEN ps
  ELSE [ps EXCEPT !.scopes[ps.serializer_scope].instrs =
          [i \in 1..Len(@) |->
             IF \E k \in 1..Len(ocs) : ocs[k] = i - 1
               THEN WithPosition(@[i], 2, 3, get_diff_from(ps, i - 1))
               ELSE @[i]]]

start_dumping_logical_and_checks(ps) ==
  STACK_PUSH(ps, "U8", Len(ps.logical_and_checks) % IdxModulus)

dump_logical_and_check_for_rewrite(ps, operand) ==
  dump_triple_address(STACK_PUSH(ps, "logical_and_checks", InstrCounter(ps)),
                      "VM_OP_IS_FALSE_JMP_DOWN", operand, unknown_operand,
                      unknown_operand)

\* rewrite_logical_and_checks when fewer than 256 templates are pending,
\* which is all an expression of the sources reaches; the loop itself, one
\* pass at a time, is LogicalRewriteStep
rewrite_logical_and_checks(ps) ==
  LET from == Top(ps.U8)
      size == Len(ps.logical_and_checks)
      a == RewriteJumps(ps, SubSeq(ps.logical_and_checks, from + 1, size))
  IN STACK_DROP(STACK_DROP(a, "logical_and_checks", size - from), "U8", 1)

start_dumping_logical_or_checks(ps) ==
  STACK_PUSH(ps, "U8", Len(ps.logical_or_checks) % IdxModulus)

dump_logical_or_check_for_rewrite(ps, operand) ==
  dump_triple_address(STACK_PUSH(ps, "logical_or_checks", InstrCounter(ps)),
                      "VM_OP_IS_TRUE_JMP_DOWN", operand, unknown_operand,
                      unknown_operand)

rewrite_logical_or_checks(ps) ==
  LET from == Top(ps.U8)
      size == Len(ps.logical_or_checks)
      a == RewriteJumps(ps, SubSeq(ps.logical_or_checks, from + 1, size))
  IN STACK_DROP(STACK_DROP(a, "logical_or_checks", size - from), "U8", 1)

dump_conditional_check_for_rewrite(ps, operand) ==
  dump_triple_address(STACK_PUSH(ps, "conditional_checks", InstrCounter(ps)),
                      "VM_OP_IS_FALSE_JMP_DOWN", operand, unknown_operand,
                      unknown_operand)

rewrite_conditional_check(ps) ==
  STACK_DROP(RewriteJumps(ps, << Top(ps.conditional_checks) >>),
             "conditional_checks", 1)

\* the opcode of the header of each kind of list
VargHeaderOpcode(vlt) ==
  CASE vlt = "VARG_FUNC_EXPR" -> "VM_OP_FUNC_EXPR_N"
    [] vlt = "VARG_CONSTRUCT_EXPR" -> "VM_OP_CONSTRUCT_N"
    [] vlt = "VARG_CALL_EXPR" -> "VM_OP_CALL_N"
    [] vlt = "VARG_FUNC_DECL" -> "VM_OP_FUNC_DECL_N"
    [] vlt = "VARG_ARRAY_DECL" -> "VM_OP_ARRAY_DECL"
    [] vlt = "VARG_OBJ_DECL" -> "VM_OP_OBJ_DECL"

dump_varg_header_for_rewrite(ps, vlt, obj) ==
  LET a == STACK_PUSH(ps, "varg_headers", InstrCounter(ps))
  IN CASE vlt \in {"VARG_FUNC_EXPR", "VARG_CONSTRUCT_EXPR", "VARG_CALL_EXPR"} ->
            dump_triple_address(a, VargHeaderOpcode(vlt), unknown_operand, obj,
                                unknown_operand)
       [] vlt = "VARG_FUNC_DECL" ->
            dump_double_address(a, VargHeaderOpcode(vlt), obj, unknown_operand)
       [] vlt \in {"VARG_ARRAY_DECL", "VARG_OBJ_DECL"} ->
            dump_double_address(a, VargHeaderOpcode(vlt), unknown_operand,
                                unknown_operand)

\* the most arguments the header of a list can count
MaxArgsCount_OneByteForAll(op_idx) == 255

MaxArgsCount(op_idx) ==
  IF op_idx \in {"VM_OP_ARRAY_DECL", "VM_OP_OBJ_DECL"} THEN 65535 ELSE 255

\* rewrite_varg_header_set_args_count
rewrite_varg_header_set_args_count(ps, args_count) ==
  LET oc == Top(ps.varg_headers)
      om == serializer_get_op_meta(ps, oc)
      t == tmp_operand(ps)
  IN IF ps.pc = "done" THEN Res(ps, empty_operand)
     ELSE IF args_count > MaxArgsCount(om.op_idx)
       THEN Res(RaiseEarlyError(ps, "JSP_EARLY_ERROR_SYNTAX"), empty_operand)
     ELSE IF om.op_idx \in {"VM_OP_FUNC_EXPR_N", "VM_OP_CONSTRUCT_N",
                            "VM_OP_CALL_N"}
       THEN Res(STACK_DROP(
                  Rewrite(t.ps, oc, [om EXCEPT !.raw_args[3] = args_count % IdxModulus,
                                               !.raw_args[1] = t.op.idx]),
                  "varg_headers", 1), t.op)
     ELSE IF om.op_idx = "VM_OP_FUNC_DECL_N"
       THEN Res(STACK_DROP(
                  Rewrite(ps, oc, [om EXCEPT !.raw_args[2] = args_count % IdxModulus]),
                  "varg_headers", 1), empty_operand)
     ELSE Res(STACK_DROP(
                Rewrite(t.ps, oc,
                        [om EXCEPT !.raw_args[2] = (args_count \div 256) % IdxModulus,
                                   !.raw_args[3] = args_count % 256,
                                   !.raw_args[1] = t.op.idx]),
                "varg_headers", 1), t.op)

dump_varg(ps, operand) ==
  dump_triple_address(ps, "VM_OP_META", idx_const_operand(opcode_meta_type.VARG),
                      operand, empty_operand)

\* serializer_add_variable: a parameter or a local variable of the scope
serializer_add_variable(ps, lit_cp, is_param) ==
  IF ps.pc = "done" THEN ps
  ELSE [ps EXCEPT
          !.scopes[Len(ps.scopes)].variables =
             Append(@, [lit_id |-> lit_cp, is_param |-> is_param]),
          !.scopes[Len(ps.scopes)].param_count = IF is_param THEN @ + 1 ELSE @,
          !.scopes[Len(ps.scopes)].local_count = IF is_param THEN @ ELSE @ + 1]

scopes_tree_variable_exists(tree, lit_cp) ==
  \E i \in 1..Len(tree.variables) : tree.variables[i].lit_id = lit_cp

\* an expression and, for a property reference, its object and its name
ExprRes(ps, operand, this_arg, prop) ==
  [ps |-> ps, op |-> operand, this_arg |-> this_arg, prop |-> prop]

Plain(r) == ExprRes(r.ps, r.op, empty_operand, empty_operand)

\* parse_argument_list for the formal parameters of a function
RECURSIVE ParseFormals(_, _)
ParseFormals(ps, names) ==
  IF names = << >> THEN ps
  ELSE LET a == dumper_start_varg_code_sequence(ps)
           b == serializer_add_variable(a, Head(names), TRUE)
           c == dump_varg(b, literal_operand(Head(names)))
       IN ParseFormals(dumper_finish_varg_code_sequence(c), Tail(names))

dump_prop_name_and_value(ps, name, value) ==
  dump_triple_address(ps, "VM_OP_META",
                      idx_const_operand(opcode_meta_type.VARG_PROP_DATA),
                      name, value)

\* the expression parsers, from parse_primary_expression up to
\* parse_assignment_expression, on an expression given as a tree
RECURSIVE ParseExpr(_, _)
RECURSIVE ParseArgs(_, _)
RECURSIVE ParseProps(_, _)
ParseArgs(ps, args) ==
  IF args = << >> \/ ps.pc = "done" THEN ps
  ELSE LET a == dumper_start_varg_code_sequence(ps)
           e == ParseExpr(a, Head(args))
           b == dump_varg(e.ps, e.op)
       IN ParseArgs(dumper_finish_varg_code_sequence(b), Tail(args))

\* parse_argument_list for the properties `name: value` of an object
\* literal
ParseProps(ps, props) ==
  IF props = << >> \/ ps.pc = "done" THEN ps
  ELSE LET AfterValue(value) ==
             dump_prop_name_and_value(value.ps,
                                      literal_operand(Head(props).name),
                                      value.op)
       IN ParseProps(
            dumper_finish_varg_code_sequence(
              AfterValue(ParseExpr(dumper_start_varg_code_sequence(ps),
                                   Head(props).value))),
            Tail(props))

ParseExpr(ps, e) ==
  IF ps.pc = "done" THEN ExprRes(ps, empty_operand, empty_operand, empty_operand)
  ELSE CASE e.t = "this" ->
         ExprRes(ps, dump_this_res, empty_operand, empty_operand)
    [] e.t = "name" ->
         ExprRes(
           IF e.name = "arguments" THEN SetScope(ps, "ref_arguments", TRUE)
           ELSE IF e.name = "eval" THEN SetScope(ps, "ref_eval", TRUE)
           ELSE ps,
           literal_operand(e.name), empty_operand, empty_operand)
    [] e.t = "int" -> Plain(dump_smallint_assignment_res(ps, e.n))
    [] e.t = "str" -> Plain(dump_string_assignment_res(ps, e.s))
    [] e.t = "member" ->
         LET AfterGet(obj, prop, get) == ExprRes(get.ps, get.op, obj.op, prop.op)
             AfterProp(obj, prop) ==
               AfterGet(obj, prop, dump_prop_getter_res(prop.ps, obj.op, prop.op))
             AfterObj(obj) ==
               AfterProp(obj, dump_string_assignment_res(obj.ps, e.name))
         IN AfterObj(ParseExpr(ps, e.obj))
    [] e.t = "call" ->
         LET AfterF(f) ==
               Plain(rewrite_varg_header_set_args_count(
                       ParseArgs(dump_varg_header_for_rewrite(
                                   f.ps, "VARG_CALL_EXPR", f.op),
                                 e.args),
                       Len(e.args)))
         IN AfterF(ParseExpr(ps, e.f))
    [] e.t = "array" ->
         Plain(rewrite_varg_header_set_args_count(
                 ParseArgs(dump_varg_header_for_rewrite(ps, "VARG_ARRAY_DECL",
                                                        empty_operand),
                           e.args),
                 Len(e.args)))
    [] e.t = "object" ->
         Plain(rewrite_varg_header_set_args_count(
                 ParseProps(dump_varg_header_for_rewrite(ps, "VARG_OBJ_DECL",
                                                         empty_operand),
                            e.props),
                 Len(e.props)))
    [] e.t = "pre_incr" ->
         LET AfterR(x, r) ==
               Plain(Res(IF x.this_arg.kind # "empty" /\ x.prop.kind # "empty"
                           THEN dump_prop_setter(r.ps, x.this_arg, x.prop, r.op)
                           ELSE r.ps,
                         r.op))
             AfterX(x) == AfterR(x, dump_pre_increment_res(x.ps, x.op))
         IN AfterX(ParseExpr(ps, e.e))
    [] e.t = "and" ->
         LET AfterY(tmp, y) ==
               Plain(Res(rewrite_logical_and_checks(
                           dump_variable_assignment(y.ps, tmp.op, y.op)),
                         tmp.op))
             AfterTmp(tmp) ==
               AfterY(tmp,
                      ParseExpr(dump_logical_and_check_for_rewrite(
                                  start_dumping_logical_and_checks(tmp.ps), tmp.op),
                                e.b))
             AfterX(x) == AfterTmp(dump_variable_assignment_res(x.ps, x.op))
         IN AfterX(ParseExpr(ps, e.a))
    [] e.t = "or" ->
         LET AfterY(tmp, y) ==
               Plain(Res(rewrite_logical_or_checks(
                           dump_variable_assignment(y.ps, tmp.op, y.op)),
                         tmp.op))
             AfterTmp(tmp) ==
               AfterY(tmp,
                      ParseExpr(dump_logical_or_check_for_rewrite(
                                  start_dumping_logical_or_checks(tmp.ps), tmp.op),
                                e.b))
             AfterX(x) == AfterTmp(dump_variable_assignment_res(x.ps, x.op))
         IN AfterX(ParseExpr(ps, e.a))
    [] e.t = "cond" ->
         LET AfterY(tmp, y) ==
               Plain(Res(rewrite_jump_to_end(
                           dump_variable_assignment(y.ps, tmp.op, y.op)),
                         tmp.op))
             AfterTmp(tmp) ==
               AfterY(tmp,
                      ParseExpr(rewrite_conditional_check(
                                  dump_jump_to_end_for_rewrite(tmp.ps)),
                                e.b))
             AfterX(x) == AfterTmp(dump_variable_assignment_res(x.ps, x.op))
             AfterC(c) ==
               AfterX(ParseExpr(dump_conditional_check_for_rewrite(c.ps, c.op),
                                e.a))
         IN AfterC(ParseExpr(ps, e.c))
    [] e.t = "add" ->
         LET AfterY(l, y) == Plain(dump_addition_res(y.ps, l.op, y.op))
             AfterL(l) == AfterY(l, ParseExpr(l.ps, e.b))
             AfterX(x) == AfterL(dump_assignment_of_lhs_if_literal(x.ps, x.op))
         IN AfterX(ParseExpr(ps, e.a))
    [] e.t = "delete" ->
         LET AfterX(x) ==
               IF x.ps.pc = "done" THEN x
               ELSE Plain(dump_delete_res(x.ps, x.op,
                                          Top(x.ps.scopes).strict_mode))
         IN AfterX(ParseExpr(SetScope(ps, "contains_delete", TRUE), e.e))
    [] e.t = "assign" ->
         LET AfterRhs(lhs, rhs) ==
               Plain(IF e.op = "="
                       THEN dump_prop_setter_or_variable_assignment_res(
                              rhs.ps, lhs.op, rhs.op)
                       ELSE dump_prop_setter_or_triple_address_res(
                              rhs.ps, "VM_OP_ADDITION", lhs.op, rhs.op))
             AfterLhs(lhs) ==
               AfterRhs(lhs,
                        ParseExpr(start_dumping_assignment_expression(
                                    lhs.ps, lhs.op),
                                  e.rhs))
         IN AfterLhs(ParseExpr(ps, e.lhs))

is_strict_mode(ps) == Top(ps.scopes).strict_mode

\* expressions of the sources, as the trees the parser recognises
This == [t |-> "this"]

Name(x) == [t |-> "name", name |-> x]

SmallInt(n) == [t |-> "int", n |-> n]

Str(s) == [t |-> "str", s |-> s]

Member(obj, name) == [t |-> "member", obj |-> obj, name |-> name]

Call(f, args) == [t |-> "call", f |-> f, args |-> args]

Array(args) == [t |-> "array", args |-> args]

Object(props) == [t |-> "object", props |-> props]

PreIncr(e) == [t |-> "pre_incr", e |-> e]

And(a, b) == [t |-> "and", a |-> a, b |-> b]

Or(a, b) == [t |-> "or", a |-> a, b |-> b]

Cond(c, a, b) == [t |-> "cond", c |-> c, a |-> a, b |-> b]

Add(a, b) == [t |-> "add", a |-> a, b |-> b]

Delete(e) == [t |-> "delete", e |-> e]

Assign(operand, lhs, rhs) == [t |-> "assign", op |-> operand, lhs |-> lhs, rhs |-> rhs]

\* the expression statement each token of that kind stands for
ExprOfToken(tok) ==
  CASE tok = "expr" -> SmallInt(1)
    [] tok = "bad_lhs" -> PreIncr(SmallInt(1))
    [] tok \in {"use_strict", "use_strict_esc"} -> Str("use strict")
    [] tok = "a.b" -> Member(Name("a"), "b")
    [] tok = "this=1" -> Assign("=", This, SmallInt(1))
    [] tok = "++this" -> PreIncr(This)
    [] tok = "1=1" -> Assign("=", SmallInt(1), SmallInt(1))
    [] tok = "a.b=1" -> Assign("=", Member(Name("a"), "b"), SmallInt(1))
    [] tok = "a.b+=1" -> Assign("+=", Member(Name("a"), "b"), SmallInt(1))
    [] tok = "++a.b" -> PreIncr(Member(Name("a"), "b"))
    [] tok = "x=1" -> Assign("=", Name("x"), SmallInt(1))
    [] tok = "x+=1" -> Assign("+=", Name("x"), SmallInt(1))
    [] tok = "a&&b" -> And(Name("a"), Name("b"))
    [] tok = "a||b" -> Or(Name("a"), Name("b"))
    [] tok = "a?1:2" -> Cond(Name("a"), SmallInt(1), SmallInt(2))
    [] tok = "f(1)" -> Call(Name("f"), << SmallInt(1) >>)
    [] tok = "[1]" -> Array(<< SmallInt(1) >>)
    [] tok = "a.b+=a&&b||(c?f(1):[1])" ->
         Assign("+=", Member(Name("a"), "b"),
                Or(And(Name("a"), Name("b")),
                   Cond(Name("c"), Call(Name("f"), << SmallInt(1) >>),
                        Array(<< SmallInt(1) >>))))
    [] tok = "arguments" -> Name("arguments")
    [] tok = "eval" -> Name("eval")
    [] tok = "delete a.b" -> Delete(Member(Name("a"), "b"))
    [] tok = "x='y'" -> Assign("=", Name("x"), Str("y"))
    [] tok = "z={y:x}" ->
         Assign("=", Name("z"),
                Object(<< [name |-> "y", value |-> Name("x")] >>))
    [] tok = "f(y)" -> Call(Name("f"), << Name("y") >>)
    [] tok = "x=y" -> Assign("=", Name("x"), Name("y"))
    [] tok = "x=y+1" -> Assign("=", Name("x"), Add(Name("y"), SmallInt(1)))

ExprTokens ==
  {"expr", "bad_lhs", "use_strict", "use_strict_esc", "a.b", "this=1",
   "++this", "1=1", "a.b=1", "a.b+=1", "++a.b", "x=1", "x+=1", "a&&b",
   "a||b", "a?1:2", "f(1)", "[1]", "arguments", "eval", "delete a.b",
   "a.b+=a&&b||(c?f(1):[1])", "x='y'", "z={y:x}", "f(y)", "x=y", "x=y+1"}

\* does the statement begin with an identifier
RECURSIVE BeginsWithName(_)
BeginsWithName(e) ==
  CASE e.t = "name" -> TRUE
    [] e.t = "member" -> BeginsWithName(e.obj)
    [] e.t = "call" -> BeginsWithName(e.f)
    [] e.t \in {"and", "or", "add"} -> BeginsWithName(e.a)
    [] e.t = "cond" -> BeginsWithName(e.c)
    [] e.t = "assign" -> BeginsWithName(e.lhs)
    [] OTHER -> FALSE

\* parser_parse_program up to the first token of the source
parser_parse_program(ps, source_p, in_eval, strict) ==
  LET a == [dumper_init(ps) EXCEPT
              !.pc = "parsing", !.source = source_p, !.pos = 1,
              !.inside_eval = in_eval,
              !.is_strict = strict,
              !.labels = << >>,
              !.early_error_type = "none",
              !.scopes = << [scopes_tree_init(IF in_eval THEN "eval" ELSE "global")
                               EXCEPT !.strict_mode = strict] >>,
              !.serializer_scope = 1,
              !.lexer_strict_mode = strict,
              !.frames = << >>,
              !.status = "none",
              !.out_bytecode_data_p = NoBytecode,
              !.raised = "none",
              !.scope_exit = NoScopeExit,
              !.call = NoCall,
              !.after_error = (ps.pc = "done" /\ ps.status # "JSP_STATUS_OK")]
  IN SourceElementListBegin(a, NoFrame("global"))

\* the end of parser_parse_program when no error was raised
FinishProgram(ps) ==
  LET AfterRet(b) ==
        [dumper_free(b) EXCEPT
           !.out_bytecode_data_p = [null |-> FALSE, instrs |-> Merge(b.scopes[1])],
           !.serializer_scope = NULL,
           !.scopes = << >>,
           !.frames = << >>,
           !.scope_exit.at_end = StackDepths(b),
           !.status = "JSP_STATUS_OK",
           !.pc = "done"]
      AfterList(a) ==
        AfterRet(IF a.inside_eval THEN dump_retval(a, eval_ret_operand)
                 ELSE dump_ret(a))
  IN AfterList(SourceElementListEnd(ps))

\* parse_function_declaration up to the first source element of the body
BeginFunction(ps, formals) ==
  LET a == SetScope(Set(ps, "labels", << >>), "contains_functions", TRUE)
      b == [a EXCEPT !.scopes = Append(@,
                        [scopes_tree_init("function") EXCEPT
                           !.strict_mode = is_strict_mode(a)]),
                     !.serializer_scope = Len(a.scopes) + 1,
                     !.lexer_strict_mode = is_strict_mode(a)]
      c == dump_varg_header_for_rewrite(b, "VARG_FUNC_DECL",
                                        literal_operand("f"))
      d == rewrite_varg_header_set_args_count(ParseFormals(c, formals),
                                              Len(formals)).ps
      e == Set(dump_function_end_for_rewrite(d), "inside_function", TRUE)
  IN Set(SourceElementListBegin(e,
           [NoFrame("function") EXCEPT
              !.was_in_function = ps.inside_function,
              !.masked_label_set = ps.labels,
              !.is_try_replace_local_vars_with_regs = TRUE]),
         "pos", ps.pos + 1)

\* parse_function_declaration from the closing brace of the body
EndFunction(ps) ==
  LET frame == Top(ps.frames)
      AfterEnd(b, n) ==
        [b EXCEPT !.inside_function = frame.was_in_function,
                  !.scopes = [Drop(b.scopes, 1) EXCEPT
                                ![n - 1].children = Append(@, Merge(b.scopes[n]))],
                  !.serializer_scope = n - 1,
                  !.lexer_strict_mode = b.scopes[n - 1].strict_mode,
                  !.labels = frame.masked_label_set,
                  !.frames = Drop(@, 1),
                  !.pos = ps.pos + 1]
      AfterBody(b) == AfterEnd(b, Len(b.scopes))
  IN AfterBody(rewrite_function_end(dump_ret(SourceElementListEnd(ps))))

(* ------------------------------ label set ------------------------------ *)

\* the position no instruction has: the end of a chain of jumps
MAX_OPCODES == InstrCounterModulus - 1

JSP_LABEL_TYPE_NAMED == "NAMED"

JSP_LABEL_TYPE_UNNAMED_BREAKS == "UNNAMED_BREAKS"

JSP_LABEL_TYPE_UNNAMED_CONTINUES == "UNNAMED_CONTINUES"

\* dump_simple_or_nested_jump_for_rewrite that encodes no earlier jump
dump_simple_or_nested_jump_for_rewrite_Unlinked(ps, is_simple_jump, next_jump_for_tgt_oc) ==
  LET ids == split_instr_counter(MAX_OPCODES)
  IN Res(dump_double_address(ps,
           IF is_simple_jump THEN "VM_OP_JMP_DOWN" ELSE "VM_OP_JMP_BREAK_CONTINUE",
           idx_const_operand(ids[1]), idx_const_operand(ids[2])),
         InstrCounter(ps))

\* dump_simple_or_nested_jump_for_rewrite: the template encodes the
\* position of the jump registered before it on the same target
dump_simple_or_nested_jump_for_rewrite(ps, is_simple_jump, next_jump_for_tgt_oc) ==
  LET ids == split_instr_counter(next_jump_for_tgt_oc)
  IN Res(dump_double_address(ps,
           IF is_simple_jump THEN "VM_OP_JMP_DOWN" ELSE "VM_OP_JMP_BREAK_CONTINUE",
           idx_const_operand(ids[1]), idx_const_operand(ids[2])),
         InstrCounter(ps))

\* rewrite_simple_or_nested_jump_and_get_next that writes the position of
\* the target itself
rewrite_simple_or_nested_jump_and_get_next_Absolute(ps, jump_oc, target_oc) ==
  LET jump_op_meta == serializer_get_op_meta(ps, jump_oc)
  IN Res(Rewrite(ps, jump_oc, WithPosition(jump_op_meta, 1, 2, target_oc)),
         vm_calc_instr_counter_from_idx_idx(jump_op_meta.raw_args[1],
                                            jump_op_meta.raw_args[2]))

\* rewrite_simple_or_nested_jump_and_get_next: the distance to the target
\* is written, the position that was encoded is returned
rewrite_simple_or_nested_jump_and_get_next(ps, jump_oc, target_oc) ==
  LET jump_op_meta == serializer_get_op_meta(ps, jump_oc)
  IN Res(Rewrite(ps, jump_oc,
                 WithPosition(jump_op_meta, 1, 2, DiffOfCounters(target_oc, jump_oc))),
         vm_calc_instr_counter_from_idx_idx(jump_op_meta.raw_args[1],
                                            jump_op_meta.raw_args[2]))

\* a label with no jump registered; breaks and continues list, oldest
\* first, the positions of the jumps registered on it
NewLabel(type_mask, id) ==
  [type_mask |-> type_mask, id |-> id,
   continue_tgt_oc |-> MAX_OPCODES,
   breaks_list_oc |-> MAX_OPCODES,
   continues_list_oc |-> MAX_OPCODES,
   is_nested_jumpable_border |-> FALSE,
   breaks |-> << >>, continues |-> << >>]

\* jsp_label_push
jsp_label_push(ps, type_mask, id) ==
  Set(ps, "labels", Append(ps.labels, NewLabel(type_mask, id)))

\* jsp_label_find: the innermost label of the type (and of the name, for a
\* named one), 0 when there is none; a jump to it is simple unless a
\* border is raised on a label from the innermost one to the one found
jsp_label_find(ps, type, id) ==
  LET Matches(i) ==
        /\ type \in ps.labels[i].type_mask
        /\ type = JSP_LABEL_TYPE_NAMED => ps.labels[i].id = id
      found == {i \in 1..Len(ps.labels) : Matches(i)}
      label_p == IF found = {} THEN 0
                 ELSE CHOOSE i \in found : \A j \in found : j <= i
  IN [label_p |-> label_p,
      is_simply_jumpable |->
        ~\E j \in label_p..Len(ps.labels) :
            label_p # 0 /\ ps.labels[j].is_nested_jumpable_border]

\* jsp_label_add_jump: the new template becomes the head of the label's
\* list of breaks or of continues
jsp_label_add_jump(ps, label_p, is_simply_jumpable, is_break) ==
  LET label == ps.labels[label_p]
      AfterDump(r) ==
        IF r.ps.pc = "done" THEN r.ps
        ELSE IF is_break
          THEN [r.ps EXCEPT !.labels[label_p].breaks_list_oc = r.op,
                            !.labels[label_p].breaks = Append(@, r.op)]
          ELSE [r.ps EXCEPT !.labels[label_p].continues_list_oc = r.op,
                            !.labels[label_p].continues = Append(@, r.op)]
  IN AfterDump(dump_simple_or_nested_jump_for_rewrite(
                 ps, is_simply_jumpable,
                 IF is_break THEN label.breaks_list_oc
                 ELSE label.continues_list_oc))

\* jsp_label_setup_continue_target: for the labels of one statement, from
\* the innermost label to the outermost label of the statement
RECURSIVE jsp_label_setup_continue_target(_, _, _)
jsp_label_setup_continue_target(ps, outermost_label_p, tgt_oc) ==
  IF ps.pc = "done" \/ outermost_label_p > Len(ps.labels) THEN ps
  ELSE jsp_label_setup_continue_target(
         [ps EXCEPT !.labels[outermost_label_p].continue_tgt_oc = tgt_oc],
         outermost_label_p + 1, tgt_oc)

\* the walk over one list of jumps: every jump gets its distance to the
\* target; r.op is the list of the positions visited
RECURSIVE RewriteChain(_, _, _)
RewriteChain(r, jump_oc, target_oc) ==
  LET AfterRewrite(n) ==
        RewriteChain(Res(n.ps, Append(r.op, jump_oc)), n.op, target_oc)
  IN IF jump_oc = MAX_OPCODES \/ r.ps.pc = "done" THEN r
     ELSE AfterRewrite(rewrite_simple_or_nested_jump_and_get_next(
                         r.ps, jump_oc, target_oc))

\* jsp_label_rewrite_jumps_and_pop for the innermost label: its breaks go
\* to break_tgt_oc, its continues to the continue target set up for it
jsp_label_rewrite_jumps_and_pop(ps, break_tgt_oc) ==
  LET label == Top(ps.labels)
      AfterContinues(b, c) ==
        [c.ps EXCEPT
           !.labels = Drop(@, 1),
           !.call.after = Append(@,
             [label |-> label, depth |-> Len(ps.labels),
              break_tgt_oc |-> break_tgt_oc,
              visited_breaks |-> b.op, visited_continues |-> c.op,
              before |-> ps.scopes[ps.serializer_scope].instrs,
              after |-> c.ps.scopes[ps.serializer_scope].instrs,
              labels_before |-> ps.labels,
              labels_after |-> Drop(c.ps.labels, 1)])]
      AfterBreaks(b) ==
        AfterContinues(b, RewriteChain(Res(b.ps, << >>), label.continues_list_oc,
                                       label.continue_tgt_oc))
  IN IF ps.pc = "done" THEN ps
     ELSE AfterBreaks(RewriteChain(Res(ps, << >>), label.breaks_list_oc,
                                   break_tgt_oc))

\* jsp_label_raise_nested_jumpable_border: on the innermost label, if
\* there is one and none is raised on it yet; r.op tells whether it was
jsp_label_raise_nested_jumpable_border(ps) ==
  IF ps.pc = "done" \/ ps.labels = << >>
       \/ Top(ps.labels).is_nested_jumpable_border
    THEN Res(ps, FALSE)
    ELSE Res([ps EXCEPT !.labels[Len(ps.labels)].is_nested_jumpable_border = TRUE],
             TRUE)

\* jsp_label_remove_nested_jumpable_border
jsp_label_remove_nested_jumpable_border(ps) ==
  IF ps.pc = "done" THEN ps
  ELSE [ps EXCEPT !.labels[Len(ps.labels)].is_nested_jumpable_border = FALSE]

\* a break or continue statement: `break;`, `continue;`, `break a;`,
\* `continue a;`
JumpStatement(ps, is_break, id) ==
  LET type == IF id # "" THEN JSP_LABEL_TYPE_NAMED
              ELSE IF is_break THEN JSP_LABEL_TYPE_UNNAMED_BREAKS
              ELSE JSP_LABEL_TYPE_UNNAMED_CONTINUES
      AfterFind(a, f) ==
        IF f.label_p = 0 THEN RaiseEarlyError(a, "JSP_EARLY_ERROR_SYNTAX")
        ELSE Set(jsp_label_add_jump(a, f.label_p, f.is_simply_jumpable, is_break),
                 "pos", ps.pos + 1)
      AfterNew(a) == AfterFind(a, jsp_label_find(a, type, id))
  IN AfterNew(dumper_new_statement(ps))

\* the condition of a loop is read: the frame of the loop keeps the
\* position of the first instruction of the condition check
ConditionAt(ps) ==
  IF ps.pc = "done" THEN ps
  ELSE [ps EXCEPT !.frames[Len(ps.frames)].oc = InstrCounter(ps)]

\* parse_while_statement up to the body of `while (c) {`
BeginWhile(ps) ==
  dumper_set_next_interation_target(dump_jump_to_end_for_rewrite(ps))

\* parse_while_statement after the body
EndWhile(ps, outermost_stmt_label_p) ==
  LET AfterCond(cond) == dump_continue_iterations_check(cond.ps, cond.op)
      AfterTarget(a) ==
        AfterCond(ParseExpr(ConditionAt(rewrite_jump_to_end(a)), Name("c")))
  IN AfterTarget(jsp_label_setup_continue_target(ps, outermost_stmt_label_p,
                                                 InstrCounter(ps)))

\* parse_do_while_statement up to the body of `do {`
BeginDoWhile(ps) == dumper_set_next_interation_target(ps)

\* parse_do_while_statement after the body, `} while (a.b);`
EndDoWhile(ps, outermost_stmt_label_p) ==
  LET AfterCond(cond) == dump_continue_iterations_check(cond.ps, cond.op)
      AfterTarget(a) ==
        AfterCond(ParseExpr(ConditionAt(a), Member(Name("a"), "b")))
  IN AfterTarget(jsp_label_setup_continue_target(ps, outermost_stmt_label_p,
                                                 InstrCounter(ps)))

\* jsp_parse_for_statement up to the body of `for (x = 1; a.b; x += 1) {`
\* or, with no clause of the three, of `for (;;) {`
BeginFor(ps, is_full) ==
  LET AfterInit(a) ==
        dumper_set_next_interation_target(dump_jump_to_end_for_rewrite(a))
  IN AfterInit(IF is_full
                 THEN ParseExpr(ps, Assign("=", Name("x"), SmallInt(1))).ps
                 ELSE ps)

\* jsp_parse_for_statement after the body
EndFor(ps, outermost_stmt_label_p, is_full) ==
  LET AfterCond(cond) == dump_continue_iterations_check(cond.ps, cond.op)
      AfterIncrement(b) ==
        IF is_full THEN AfterCond(ParseExpr(b, Member(Name("a"), "b")))
        ELSE dump_continue_iterations_check(b, empty_operand)
      AfterTarget(a) ==
        AfterIncrement(ConditionAt(rewrite_jump_to_end(
          IF is_full THEN ParseExpr(a, Assign("+=", Name("x"), SmallInt(1))).ps
          ELSE a)))
  IN AfterTarget(jsp_label_setup_continue_target(ps, outermost_stmt_label_p,
                                                 InstrCounter(ps)))

LoopTokens == {"while", "a:while", "do", "for", "for(;;)"}

\* the kind of loop a token opens
LoopKindOf(tok) ==
  CASE tok \in {"while", "a:while"} -> "while"
    [] tok = "do" -> "do"
    [] tok \in {"for", "for(;;)"} -> "for"

\* parse_iterational_statement up to the body of the loop
BeginIteration(ps, outermost_named_stmt_label_p, tok) ==
  LET kind == LoopKindOf(tok)
      Body(b, outermost_stmt_label_p) ==
        Set(STACK_PUSH(b, "frames",
              [NoFrame(kind) EXCEPT
                 !.outermost = outermost_stmt_label_p,
                 !.named = outermost_named_stmt_label_p # 0,
                 !.is_full = tok # "for(;;)"]),
            "pos", ps.pos + 1)
      AfterPush(a) ==
        Body(CASE kind = "while" -> BeginWhile(a)
               [] kind = "do" -> BeginDoWhile(a)
               [] kind = "for" -> BeginFor(a, tok # "for(;;)"),
             IF outermost_named_stmt_label_p # 0
               THEN outermost_named_stmt_label_p ELSE Len(a.labels))
  IN AfterPush(jsp_label_push(ps,
       {JSP_LABEL_TYPE_UNNAMED_BREAKS, JSP_LABEL_TYPE_UNNAMED_CONTINUES}, ""))

\* parse_statement at a loop, with the label `a:` before it or without
BeginLoop(ps, tok) ==
  LET a == dumper_new_statement(ps)
  IN IF tok # "a:while" THEN BeginIteration(a, 0, tok)
     ELSE IF jsp_label_find(a, JSP_LABEL_TYPE_NAMED, "a").label_p # 0
       THEN RaiseEarlyError(a, "JSP_EARLY_ERROR_SYNTAX")
     ELSE BeginIteration(jsp_label_push(a, {JSP_LABEL_TYPE_NAMED}, "a"),
                         Len(a.labels) + 1, tok)

\* parse_iterational_statement after the body of the loop, and the end of
\* the labelled statement when the loop has a label
EndLoop(ps) ==
  LET frame == Top(ps.frames)
      AfterPop(d, c) ==
        IF d.pc = "done" THEN d
        ELSE [d EXCEPT
                !.frames = Drop(@, 1),
                !.pos = ps.pos + 1,
                !.call =
                  [name |-> "parse_iterational_statement",
                   arg |-> frame.outermost,
                   kind |-> frame.kind,
                   before |-> [instrs |-> ps.scopes[ps.serializer_scope].instrs,
                               labels |-> ps.labels,
                               next_iterations |-> ps.next_iterations,
                               jumps_to_end |-> ps.jumps_to_end,
                               is_full |-> frame.is_full,
                               depths |-> StackDepths(ps)],
                   after |-> [instrs |-> d.scopes[ps.serializer_scope].instrs,
                              labels |-> d.labels,
                              condition |-> Top(c.frames).oc,
                              next_iterations |-> d.next_iterations,
                              jumps_to_end |-> d.jumps_to_end,
                              pops |-> d.call.after,
                              depths |-> StackDepths(d)],
                   ret |-> 0,
                   raised |-> FALSE]]
      AfterLoop(c) ==
        AfterPop(IF frame.named
                   THEN jsp_label_rewrite_jumps_and_pop(
                          jsp_label_rewrite_jumps_and_pop(c, InstrCounter(c)),
                          InstrCounter(c))
                   ELSE jsp_label_rewrite_jumps_and_pop(c, InstrCounter(c)),
                 c)
      AfterBody(a) ==
        AfterLoop(CASE frame.kind = "while" -> EndWhile(a, frame.outermost)
                    [] frame.kind = "do" -> EndDoWhile(a, frame.outermost)
                    [] frame.kind = "for" ->
                         EndFor(a, frame.outermost, frame.is_full))
  IN AfterBody([ps EXCEPT !.call = NoCall])

\* parse_with_statement up to the body
BeginWith(ps) ==
  LET a == dumper_new_statement(ps)
      AfterRaise(r, operand) ==
        Set(STACK_PUSH(dump_with_for_rewrite(r.ps, operand), "frames",
                       [NoFrame("with") EXCEPT !.oc = InstrCounter(r.ps),
                                               !.is_raised = r.op]),
            "pos", ps.pos + 1)
      AfterFlag(b, operand) ==
        AfterRaise(jsp_label_raise_nested_jumpable_border(b), operand)
      AfterExpr(expr) ==
        AfterFlag(SetScope(expr.ps, "contains_with", TRUE), expr.op)
  IN IF is_strict_mode(ps) THEN RaiseEarlyError(a, "JSP_EARLY_ERROR_SYNTAX")
     ELSE AfterExpr(ParseExpr(a, Name("a")))

\* parse_with_statement after the body
EndWith(ps) ==
  LET a == dump_with_end(rewrite_with(ps, Top(ps.frames).oc))
      b == IF Top(ps.frames).is_raised
             THEN jsp_label_remove_nested_jumpable_border(a) ELSE a
  IN [b EXCEPT !.frames = Drop(@, 1), !.pos = ps.pos + 1]

\* check_directive_prologue_for_use_strict, for the directive at hand: a
\* "use strict" without escape sequences at the head of a scope
UseStrictDirective_IgnoringEscapes(ps, tok) ==
  IF Top(ps.frames).in_prologue /\ tok \in {"use_strict", "use_strict_esc"}
    THEN Set(SetScope(ps, "strict_mode", TRUE), "lexer_strict_mode", TRUE)
    ELSE ps

UseStrictDirective(ps, tok) ==
  IF Top(ps.frames).in_prologue /\ tok = "use_strict"
    THEN Set(SetScope(ps, "strict_mode", TRUE), "lexer_strict_mode", TRUE)
    ELSE ps

\* an expression statement
ExpressionStatement(ps, tok) ==
  LET e == ExprOfToken(tok)
      AfterEvalRet(r, a) ==
        Set(IF BeginsWithName(e)
              THEN dump_assignment_of_lhs_if_literal(a, r.op).ps
              ELSE a,
            "pos", ps.pos + 1)
      AfterExpr(r) ==
        AfterEvalRet(r, IF StoresEvalResult(r.ps)
                          THEN dump_variable_assignment(r.ps, eval_ret_operand, r.op)
                          ELSE r.ps)
  IN AfterExpr(ParseExpr(dumper_new_statement(UseStrictDirective(ps, tok)), e))

\* is a return statement accepted here
ReturnIsLegal(ps) == ps.inside_function

ReturnStatement(ps) ==
  IF ~ReturnIsLegal(ps)
    THEN RaiseEarlyError(ps, "JSP_EARLY_ERROR_SYNTAX")
    ELSE Set(dump_ret(dumper_new_statement(ps)), "pos", ps.pos + 1)

\* a return statement with a value
ReturnValueStatement(ps, e) ==
  IF ~ReturnIsLegal(ps)
    THEN RaiseEarlyError(ps, "JSP_EARLY_ERROR_SYNTAX")
    ELSE LET AfterExpr(r) == Set(dump_retval(r.ps, r.op), "pos", ps.pos + 1)
         IN AfterExpr(ParseExpr(dumper_new_statement(ps), e))

\* parse_variable_declaration: `var name;` or `var name = init;`
parse_variable_declaration(ps, name, has_init, init) ==
  LET a == IF scopes_tree_variable_exists(Top(ps.scopes), name) THEN ps
           ELSE serializer_add_variable(ps, name, FALSE)
      AfterInit(expr) ==
        dump_variable_assignment(expr.ps, literal_operand(name), expr.op)
  IN IF has_init THEN AfterInit(ParseExpr(a, init)) ELSE a

\* a variable statement with one declaration
VariableStatement(ps, name, has_init, init) ==
  Set(parse_variable_declaration(dumper_new_statement(ps), name, has_init, init),
      "pos", ps.pos + 1)

\* parse_try_statement up to the statements of the block
BeginTry(ps) ==
  LET a == SetScope(dumper_new_statement(ps), "contains_try", TRUE)
      AfterRaise(r) ==
        Set(STACK_PUSH(dump_try_for_rewrite(r.ps), "frames",
                       [NoFrame("try") EXCEPT !.is_raised = r.op]),
            "pos", ps.pos + 1)
  IN AfterRaise(jsp_label_raise_nested_jumpable_border(a))

\* the block on top of the frames becomes a block of another kind
NextClause(ps, kind) ==
  IF ps.pc = "done" THEN ps
  ELSE [ps EXCEPT !.frames[Len(ps.frames)].kind = kind, !.pos = ps.pos + 1]

\* parse_try_statement / parse_catch_clause at `} catch (e) {`
BeginCatch(ps) ==
  IF Top(ps.frames).kind # "try"
    THEN RaiseEarlyError(ps, "JSP_EARLY_ERROR_SYNTAX")
    ELSE NextClause(dump_catch_for_rewrite(rewrite_try(ps), literal_operand("e")),
                    "catch")

\* parse_try_statement / parse_finally_clause at `} finally {`
BeginFinally(ps) ==
  LET kind == Top(ps.frames).kind
  IN IF kind = "try"
       THEN NextClause(dump_finally_for_rewrite(rewrite_try(ps)), "finally")
     ELSE IF kind = "catch"
       THEN NextClause(dump_finally_for_rewrite(rewrite_catch(ps)), "finally")
     ELSE RaiseEarlyError(ps, "JSP_EARLY_ERROR_SYNTAX")

\* parse_try_statement at the closing brace of the last clause; a try
\* block needs a catch or a finally clause
EndTry(ps) ==
  LET kind == Top(ps.frames).kind
      a == IF kind = "catch" THEN rewrite_catch(ps) ELSE rewrite_finally(ps)
      b == dump_end_try_catch_finally(a)
      c == IF Top(ps.frames).is_raised
             THEN jsp_label_remove_nested_jumpable_border(b) ELSE b
  IN IF kind = "try"
       THEN RaiseEarlyError(rewrite_try(ps), "JSP_EARLY_ERROR_SYNTAX")
       ELSE [c EXCEPT !.frames = Drop(@, 1), !.pos = ps.pos + 1]

\* an expression statement that is a sum, `a + 1 + 1 ...;`, up to its first
\* operand: parse_additive_expression keeps the operand parsed so far
BeginSum(ps, e) ==
  LET AfterExpr(r) ==
        Set(STACK_PUSH(r.ps, "frames", [NoFrame("sum") EXCEPT !.expr = r.op]),
            "pos", ps.pos + 1)
  IN AfterExpr(ParseExpr(dumper_new_statement(ps), e))

\* the loop of parse_additive_expression for n more terms `+ 1`
RECURSIVE AddTerms(_, _, _)
AddTerms(ps, expr, n) ==
  LET AfterSum(r) == AddTerms(r.ps, r.op, n - 1)
      AfterY(l, y) == AfterSum(dump_addition_res(y.ps, l.op, y.op))
      AfterL(l) == AfterY(l, ParseExpr(l.ps, SmallInt(1)))
  IN IF n = 0 \/ ps.pc = "done" THEN Res(ps, expr)
     ELSE AfterL(dump_assignment_of_lhs_if_literal(ps, expr))

\* "+1": one more term of the sum; "+1x10": ten more terms; ";": the end
\* of the statement
SumToken(ps, tok) ==
  LET expr == Top(ps.frames).expr
      AfterTerms(r) ==
        IF r.ps.pc = "done" THEN r.ps
        ELSE [r.ps EXCEPT !.frames[Len(ps.frames)].expr = r.op,
                          !.pos = ps.pos + 1]
      a == IF StoresEvalResult(ps)
             THEN dump_variable_assignment(ps, eval_ret_operand, expr)
             ELSE ps
      b == dump_assignment_of_lhs_if_literal(a, expr).ps
  IN CASE tok \in {"+1", "+1x10"} ->
            AfterTerms(AddTerms(ps, expr, IF tok = "+1" THEN 1 ELSE 10))
       [] tok = ";" ->
            [b EXCEPT !.frames = Drop(@, 1), !.pos = ps.pos + 1]

\* a statement `1;` in the body of a case clause
ClauseStatement(ps) ==
  LET AfterExpr(r) ==
        IF StoresEvalResult(r.ps)
          THEN dump_variable_assignment(r.ps, eval_ret_operand, r.op)
          ELSE r.ps
  IN AfterExpr(ParseExpr(dumper_new_statement(ps), SmallInt(1)))

\* the first loop of parse_switch_statement: the table of jumps; r holds
\* the state and whether a default clause was met
RECURSIVE SwitchTable(_, _, _)
SwitchTable(r, switch_expr, clauses) ==
  LET c == Head(clauses)
      AfterCaseExpr(case_expr) ==
        SwitchTable(
          [r EXCEPT !.ps = dump_case_clause_check_for_rewrite(
                             case_expr.ps, switch_expr, case_expr.op)],
          switch_expr, Tail(clauses))
  IN IF clauses = << >> \/ r.ps.pc = "done" THEN r
     ELSE IF ~c.is_default
       THEN AfterCaseExpr(ParseExpr(r.ps, SmallInt(1)))
     ELSE IF r.was_default
       THEN [r EXCEPT !.ps = RaiseEarlyError(r.ps, "JSP_EARLY_ERROR_SYNTAX")]
     ELSE SwitchTable([r EXCEPT !.was_default = TRUE], switch_expr,
                      Tail(clauses))

\* the second loop of parse_switch_statement: the bodies of the clauses
RECURSIVE SwitchBodies(_, _)
SwitchBodies(ps, clauses) ==
  LET c == Head(clauses)
      AfterLabel(a) == IF c.has_body THEN ClauseStatement(a) ELSE a
  IN IF clauses = << >> \/ ps.pc = "done" THEN ps
     ELSE SwitchBodies(AfterLabel(IF c.is_default THEN rewrite_default_clause(ps)
                                  ELSE rewrite_case_clause(ps)),
                       Tail(clauses))

\* parse_switch_statement for `switch (a) { clauses }`
SwitchStatement(ps, clauses) ==
  LET AfterDefault(b) ==
        Set(finish_dumping_case_clauses(
              jsp_label_rewrite_jumps_and_pop(b, InstrCounter(b))),
            "pos", ps.pos + 1)
      AfterBodies(t, a) ==
        AfterDefault(IF t.was_default THEN a ELSE rewrite_default_clause(a))
      AfterTable(t) ==
        AfterBodies(t, SwitchBodies(
                         jsp_label_push(dump_default_clause_check_for_rewrite(t.ps),
                                        {JSP_LABEL_TYPE_UNNAMED_BREAKS}, ""),
                         clauses))
      AfterSwitchExpr(switch_expr) ==
        AfterTable(SwitchTable([ps |-> start_dumping_case_clauses(switch_expr.ps),
                                was_default |-> FALSE],
                               switch_expr.op, clauses))
      AfterExpr(e) == AfterSwitchExpr(dump_assignment_of_lhs_if_literal(e.ps, e.op))
  IN AfterExpr(ParseExpr(dumper_new_statement([ps EXCEPT !.call = NoCall]),
                         Name("a")))

Case(has_body) == [is_default |-> FALSE, has_body |-> has_body]

Default(has_body) == [is_default |-> TRUE, has_body |-> has_body]

\* the clauses of the switch statements of the sources
ClausesOf(tok) ==
  CASE tok = "switch{}" -> << >>
    [] tok = "switch{case 1:1;default:1;}" -> << Case(TRUE), Default(TRUE) >>
    [] tok = "switch{default:case 1:1;}" -> << Default(FALSE), Case(TRUE) >>
    [] tok = "switch{default:default:}" -> << Default(FALSE), Default(FALSE) >>

SwitchTokens ==
  {"switch{}", "switch{case 1:1;default:1;}", "switch{default:case 1:1;}",
   "switch{default:default:}"}

\* the formal parameters of the function headers of the sources
FormalsOf(tok) ==
  CASE tok = "function(x)" -> << "x" >>
    [] tok = "function(x,y)" -> << "x", "y" >>
    [] tok = "function(x,x)" -> << "x", "x" >>
    [] tok = "function(f)" -> << "f" >>
    [] OTHER -> << >>

FunctionTokens == {"function", "function(x)", "function(x,y)", "function(x,x)"}

\* `function f (f) {`: the parameter has the name of the function
SameNameFunctionTokens == {"function(f)"}

\* the name a variable statement without initialiser declares
VarNameOf(tok) == IF tok = "var f" THEN "f" ELSE "z"

\* the directive prologue of a scope ends at its first token that is not a
\* string literal
AfterToken(ps, tok) ==
  IF ps.pc = "done" \/ ps.frames = << >> THEN ps
  ELSE [ps EXCEPT !.frames[Len(ps.frames)].in_prologue =
          @ /\ tok = "use_strict_esc"]

\* the parser handles the current token
ParseToken(ps) ==
  LET tok == IF ps.pos <= Len(ps.source) THEN ps.source[ps.pos] ELSE "EOF"
      kind == Top(ps.frames).kind
  IN CASE kind = "sum" -> SumToken(ps, tok)
       [] tok = "EOF" ->
            IF kind = "global" THEN FinishProgram(ps)
            ELSE RaiseEarlyError(ps, "JSP_EARLY_ERROR_SYNTAX")
       [] tok = "}" ->
            IF kind = "function" THEN EndFunction(ps)
            ELSE IF kind \in {"while", "do", "for"} THEN EndLoop(ps)
            ELSE IF kind = "with" THEN EndWith(ps)
            ELSE IF kind \in {"try", "catch", "finally"} THEN EndTry(ps)
            ELSE RaiseEarlyError(ps, "JSP_EARLY_ERROR_SYNTAX")
       [] tok \in ExprTokens -> AfterToken(ExpressionStatement(ps, tok), tok)
       [] tok = "return" -> AfterToken(ReturnStatement(ps), tok)
       [] tok \in FunctionTokens \cup SameNameFunctionTokens ->
            BeginFunction(ps, FormalsOf(tok))
       [] tok = "return y" ->
            AfterToken(ReturnValueStatement(ps, Name("y")), tok)
       [] tok = "var y=x+1" ->
            AfterToken(VariableStatement(ps, "y", TRUE,
                                         Add(Name("x"), SmallInt(1))), tok)
       [] tok \in {"var z", "var f"} ->
            AfterToken(VariableStatement(ps, VarNameOf(tok), FALSE, SmallInt(0)),
                       tok)
       [] tok = "a+" -> BeginSum(AfterToken(ps, tok), Name("a"))
       [] tok = "a.b+" -> BeginSum(AfterToken(ps, tok), Member(Name("a"), "b"))
       [] tok \in SwitchTokens ->
            SwitchStatement(AfterToken(ps, tok), ClausesOf(tok))
       [] tok = "try" -> BeginTry(AfterToken(ps, tok))
       [] tok = "catch" -> BeginCatch(ps)
       [] tok = "finally" -> BeginFinally(ps)
       [] tok \in LoopTokens -> BeginLoop(AfterToken(ps, tok), tok)
       [] tok \in {"break", "continue", "break a", "continue a"} ->
            AfterToken(JumpStatement(ps, tok \in {"break", "break a"},
                                     IF tok \in {"break a", "continue a"}
                                       THEN "a" ELSE ""), tok)
       [] tok = "with" -> BeginWith(AfterToken(ps, tok))

\* a whole compilation of a program that is in progress
RECURSIVE RunToEnd(_)
RunToEnd(ps) == IF ps.pc = "done" THEN ps ELSE RunToEnd(ParseToken(ps))

\* what a freshly initialised compiler returns for a source
FreshResult(source_p, in_eval, strict) ==
  LET r == RunToEnd(parser_parse_program(PFresh, source_p, in_eval, strict))
  IN [status |-> r.status, out_bytecode_data_p |-> r.out_bytecode_data_p]

(* --------------------------- compiler actions -------------------------- *)

PStore(ps) ==
  /\ pc' = ps.pc
  /\ source' = ps.source
  /\ pos' = ps.pos
  /\ inside_eval' = ps.inside_eval
  /\ is_strict' = ps.is_strict
  /\ inside_function' = ps.inside_function
  /\ scopes' = ps.scopes
  /\ serializer_scope' = ps.serializer_scope
  /\ lexer_strict_mode' = ps.lexer_strict_mode
  /\ labels' = ps.labels
  /\ frames' = ps.frames
  /\ U8' = ps.U8
  /\ varg_headers' = ps.varg_headers
  /\ function_ends' = ps.function_ends
  /\ logical_and_checks' = ps.logical_and_checks
  /\ logical_or_checks' = ps.logical_or_checks
  /\ conditional_checks' = ps.conditional_checks
  /\ jumps_to_end' = ps.jumps_to_end
  /\ prop_getters' = ps.prop_getters
  /\ next_iterations' = ps.next_iterations
  /\ case_clauses' = ps.case_clauses
  /\ tries' = ps.tries
  /\ catches' = ps.catches
  /\ finallies' = ps.finallies
  /\ jsp_reg_id_stack' = ps.jsp_reg_id_stack
  /\ jsp_reg_next' = ps.jsp_reg_next
  /\ jsp_reg_max_for_temps' = ps.jsp_reg_max_for_temps
  /\ jsp_reg_max_for_local_var' = ps.jsp_reg_max_for_local_var
  /\ jsp_reg_max_for_args' = ps.jsp_reg_max_for_args
  /\ early_error_type' = ps.early_error_type
  /\ status' = ps.status
  /\ out_bytecode_data_p' = ps.out_bytecode_data_p
  /\ raised' = ps.raised
  /\ after_error' = ps.after_error
  /\ scope_exit' = ps.scope_exit
  /\ call' = ps.call

ParserInit ==
  /\ pc = PFresh.pc
  /\ source = PFresh.source
  /\ pos = PFresh.pos
  /\ inside_eval = PFresh.inside_eval
  /\ is_strict = PFresh.is_strict
  /\ inside_function = PFresh.inside_function
  /\ scopes = PFresh.scopes
  /\ serializer_scope = PFresh.serializer_scope
  /\ lexer_strict_mode = PFresh.lexer_strict_mode
  /\ labels = PFresh.labels
  /\ frames = PFresh.frames
  /\ U8 = PFresh.U8
  /\ varg_headers = PFresh.varg_headers
  /\ function_ends = PFresh.function_ends
  /\ logical_and_checks = PFresh.logical_and_checks
  /\ logical_or_checks = PFresh.logical_or_checks
  /\ conditional_checks = PFresh.conditional_checks
  /\ jumps_to_end = PFresh.jumps_to_end
  /\ prop_getters = PFresh.prop_getters
  /\ next_iterations = PFresh.next_iterations
  /\ case_clauses = PFresh.case_clauses
  /\ tries = PFresh.tries
  /\ catches = PFresh.catches
  /\ finallies = PFresh.finallies
  /\ jsp_reg_id_stack = PFresh.jsp_reg_id_stack
  /\ jsp_reg_next = PFresh.jsp_reg_next
  /\ jsp_reg_max_for_temps = PFresh.jsp_reg_max_for_temps
  /\ jsp_reg_max_for_local_var = PFresh.jsp_reg_max_for_local_var
  /\ jsp_reg_max_for_args = PFresh.jsp_reg_max_for_args
  /\ early_error_type = PFresh.early_error_type
  /\ status = PFresh.status
  /\ out_bytecode_data_p = PFresh.out_bytecode_data_p
  /\ raised = PFresh.raised
  /\ after_error = PFresh.after_error
  /\ scope_exit = PFresh.scope_exit
  /\ call = PFresh.call

\* "expr": `1;`; "return": a return statement; "function":
\* `function f () {`; "while": `while (c) {`; "}": a closing brace;
\* "bad_lhs": `++1;` (early ReferenceError)
Tokens == {"expr", "return", "function", "while", "}", "bad_lhs"}

\* parser_parse_script is called; the lexer delivers the tokens of the
\* source one by one, and source holds those delivered so far
ParseScript ==
  /\ pc \in {"idle", "done"}
  /\ PStore(parser_parse_program(PCur, << >>, FALSE, FALSE))
  /\ UNCHANGED avars

\* parser_parse_eval is called
ParseEval ==
  /\ pc \in {"idle", "done"}
  /\ \E strict \in BOOLEAN :
       PStore(parser_parse_program(PCur, << >>, TRUE, strict))
  /\ UNCHANGED avars

\* the lexer delivers the next token, or the end of the source, and the
\* compilation in progress handles it
ParseStep ==
  /\ pc = "parsing"
  /\ \E tok \in Tokens \cup {"EOF"} :
       /\ tok # "EOF" => Len(source) < MaxSrcLen
       /\ PStore(ParseToken([PCur EXCEPT !.source =
                    IF tok = "EOF" THEN @ ELSE Append(@, tok)]))
  /\ UNCHANGED avars

\* longest source of assignment statements, in tokens
MaxAssignLen == 3

\* statements that assign or increment: `a.b;`, `this = 1;`, `++this;`,
\* `1 = 1;`, `a.b = 1;`, `a.b += 1;`, `++a.b;`, `x = 1;`, `x += 1;`, and
\* the braces of a function around them
AssignTokens ==
  {"a.b", "this=1", "++this", "1=1", "a.b=1", "a.b+=1", "++a.b", "x=1",
   "x+=1", "function", "}"}

\* the lexer delivers the next token of a source of assignment statements
AssignStep ==
  /\ pc = "parsing"
  /\ \E tok \in AssignTokens \cup {"EOF"} :
       /\ tok # "EOF" => Len(source) < MaxAssignLen
       /\ PStore(ParseToken([PCur EXCEPT !.source =
                    IF tok = "EOF" THEN @ ELSE Append(@, tok)]))
  /\ UNCHANGED avars

\* longest source of statements that store to a variable, in tokens
MaxStoreLen == 3

\* `1;`, `a.b;`, and assignments to the variable x: `x = 1;`, `x = y;`,
\* `x = y + 1;`
StoreTokens == {"expr", "a.b", "x=1", "x=y", "x=y+1", "function", "}"}

\* the lexer delivers the next token of a source of such statements
StoreStep ==
  /\ pc = "parsing"
  /\ \E tok \in StoreTokens \cup {"EOF"} :
       /\ tok # "EOF" => Len(source) < MaxStoreLen
       /\ PStore(ParseToken([PCur EXCEPT !.source =
                    IF tok = "EOF" THEN @ ELSE Append(@, tok)]))
  /\ UNCHANGED avars

\* longest source of the strict-mode runs, in tokens
MaxStrictLen == 4

\* "use_strict": the statement `"use strict";`; "use_strict_esc": the same
\* with an escape sequence in the string; "with": `with (a) {`
StrictTokens == {"use_strict", "use_strict_esc", "with", "function", "}", "expr"}

\* the lexer delivers the next token of a source with directives
StrictStep ==
  /\ pc = "parsing"
  /\ \E tok \in StrictTokens \cup {"EOF"} :
       /\ tok # "EOF" => Len(source) < MaxStrictLen
       /\ PStore(ParseToken([PCur EXCEPT !.source =
                    IF tok = "EOF" THEN @ ELSE Append(@, tok)]))
  /\ UNCHANGED avars

\* longest source of the optimiser runs, in tokens
MaxOptLen == 7

\* the place of a token in the sources of the optimiser runs: the header
\* of a function, `var y = x + 1;`, `var z;`, a statement that uses a
\* parameter or a variable, a statement that sets a flag of the scope, and
\* the closing braces
OptRank(src, tok) ==
  CASE tok \in FunctionTokens /\ src = << >> -> 1
    [] tok = "var y=x+1" -> 2
    [] tok = "var z" -> 3
    [] tok \in {"x=1", "return y"} -> 4
    [] tok \in FunctionTokens /\ src # << >> -> 6
    [] tok \in {"with", "arguments", "eval", "delete a.b", "try"} -> 6
    [] tok = "catch" -> 7
    [] tok = "}" -> 8

OptTokens ==
  FunctionTokens \cup
  {"var y=x+1", "var z", "x=1", "return y", "with", "arguments", "eval",
   "delete a.b", "try", "catch", "}"}

\* the lexer delivers the next token of a source of the optimiser runs
OptStep ==
  /\ pc = "parsing"
  /\ \E tok \in OptTokens \cup {"EOF"} :
       /\ tok # "EOF" =>
            /\ Len(source) < MaxOptLen
            /\ IF source = << >> \/ tok = "}" THEN TRUE
               ELSE OptRank(source, tok)
                      > OptRank(SubSeq(source, 1, Len(source) - 1),
                                source[Len(source)])
       /\ PStore(ParseToken([PCur EXCEPT !.source =
                    IF tok = "EOF" THEN @ ELSE Append(@, tok)]))
  /\ UNCHANGED avars

\* most single terms `+ 1` in the sum of the register runs
MaxSingles == 9

\* how many times tok is in src
RECURSIVE CountOf(_, _)
CountOf(src, tok) ==
  IF src = << >> THEN 0
  ELSE (IF Head(src) = tok THEN 1 ELSE 0) + CountOf(Tail(src), tok)

\* the place of a token in the sources of the register runs: the header of
\* a function, `var y = x + 1;`, `var z;`, and one expression statement, a
\* sum `a + 1 + 1 ...;` or `a.b + 1 + 1 ...;` that takes two more
\* temporary registers with every term
RegRank(tok) ==
  CASE tok \in FunctionTokens -> 1
    [] tok = "var y=x+1" -> 2
    [] tok = "var z" -> 3
    [] tok \in {"a+", "a.b+"} -> 4
    [] tok = "+1x10" -> 5
    [] tok = "+1" -> 6
    [] tok = ";" -> 7
    [] tok = "}" -> 8

RegTokens ==
  FunctionTokens \cup
  {"var y=x+1", "var z", "a+", "a.b+", "+1x10", "+1", ";", "}"}

\* may the lexer deliver tok after the tokens of src
RegFollows(src, tok) ==
  IF src = << >> THEN tok \in FunctionTokens
  ELSE LET last == src[Len(src)]
       IN /\ RegRank(tok) >= RegRank(last)
          /\ RegRank(tok) = RegRank(last) => tok \in {"+1x10", "+1"}
          /\ tok = "+1" => CountOf(src, "+1") < MaxSingles
          /\ tok \in {"+1x10", "+1", ";"} <=> RegRank(last) \in 4..6

\* the lexer delivers the next token of a source of the register runs
RegStep ==
  /\ pc = "parsing"
  /\ \E tok \in RegTokens \cup {"EOF"} :
       /\ IF tok = "EOF" THEN source # << >> /\ source[Len(source)] = "}"
          ELSE RegFollows(source, tok)
       /\ PStore(ParseToken([PCur EXCEPT !.source =
                    IF tok = "EOF" THEN @ ELSE Append(@, tok)]))
  /\ UNCHANGED avars

\* longest source of the substitution runs, in tokens
MaxSubstLen == 6

\* the place of a token in the sources of the substitution runs: the
\* header of the function f, `var y = x + 1;`, `var z;`, `var f;`, the
\* statements `x = 'y';`, `z = {y: x};` and `f(y);`, and the closing brace
SubstRank(tok) ==
  CASE tok \in FunctionTokens \cup SameNameFunctionTokens -> 1
    [] tok = "var y=x+1" -> 2
    [] tok = "var z" -> 3
    [] tok = "var f" -> 4
    [] tok = "x='y'" -> 5
    [] tok = "z={y:x}" -> 6
    [] tok = "f(y)" -> 7
    [] tok = "}" -> 8

SubstTokens ==
  FunctionTokens \cup SameNameFunctionTokens \cup
  {"var y=x+1", "var z", "var f", "x='y'", "z={y:x}", "f(y)", "}"}

\* the lexer delivers the next token of a source of the substitution runs
SubstStep ==
  /\ pc = "parsing"
  /\ \E tok \in SubstTokens \cup {"EOF"} :
       /\ IF tok = "EOF" THEN source # << >> /\ source[Len(source)] = "}"
          ELSE /\ Len(source) < MaxSubstLen
               /\ IF source = << >> THEN SubstRank(tok) = 1
                  ELSE SubstRank(tok) > SubstRank(source[Len(source)])
       /\ PStore(ParseToken([PCur EXCEPT !.source =
                    IF tok = "EOF" THEN @ ELSE Append(@, tok)]))
  /\ UNCHANGED avars

\* longest source of the loop runs, in tokens
MaxLoopLen == 6

\* the statements of the loop runs: the open_loops `while (c) {`, `a: while (c)
\* {`, `do {` ... `} while (a.b);`, `for (x = 1; a.b; x += 1) {` and
\* `for (;;) {`, the jumps `break;`, `continue;`, `break a;` and
\* `continue a;`, a statement `x = 1;`, `try {` ... `} catch (e) {`, and
\* the closing brace
LoopRunTokens ==
  LoopTokens \cup
  {"break", "continue", "break a", "continue a", "x=1", "try", "catch", "}"}

\* the kinds of the blocks that are open, outermost first
OpenKinds == [i \in 1..Len(frames) |-> frames[i].kind]

\* may the lexer deliver tok at this place of a source of the loop runs:
\* a loop first, at most two open_loops and one try statement open, the inner
\* loop a plain `while`, a second labelled jump only to the label
LoopFollows(tok) ==
  LET open_loops == {i \in 1..Len(frames) : frames[i].kind \in {"while", "do", "for"}}
      open_tries == {i \in 1..Len(frames) : frames[i].kind \in {"try", "catch"}}
  IN CASE tok \in LoopTokens ->
            \/ open_loops = {}
            \/ /\ Cardinality(open_loops) = 1
               /\ tok = "while"
               /\ Top(frames).kind # "catch"
       [] tok \in {"break", "continue", "x=1"} -> open_loops # {}
       [] tok \in {"break a", "continue a"} ->
            \E i \in open_loops : frames[i].named
       [] tok = "try" -> open_loops # {} /\ open_tries = {}
       [] tok = "catch" -> Top(frames).kind = "try"
       [] tok = "}" -> Top(frames).kind \in {"while", "do", "for", "catch"}

\* the lexer delivers the next token of a source of the loop runs
LoopStep ==
  /\ pc = "parsing"
  /\ \E tok \in LoopRunTokens \cup {"EOF"} :
       /\ IF tok = "EOF" THEN Len(frames) = 1 /\ source # << >>
          ELSE Len(source) < MaxLoopLen /\ LoopFollows(tok)
       /\ PStore(ParseToken([PCur EXCEPT !.source =
                    IF tok = "EOF" THEN @ ELSE Append(@, tok)]))
  /\ UNCHANGED avars

\* longest source of the balance runs, in tokens
MaxBalanceLen == 4

\* the statements that push on the stacks of the dumper: functions, loops,
\* with, try / catch / finally, switch, and an expression statement with a
\* compound assignment to a property, `&&`, `||`, `?:`, a call and an
\* array literal
BalanceTokens ==
  {"function(x)", "while", "with", "try", "catch", "finally", "}",
   "switch{case 1:1;default:1;}", "switch{default:default:}",
   "a.b+=a&&b||(c?f(1):[1])"}

\* the lexer delivers the next token of a source of the balance runs
BalanceStep ==
  /\ pc = "parsing"
  /\ \E tok \in BalanceTokens \cup {"EOF"} :
       /\ tok # "EOF" => Len(source) < MaxBalanceLen
       /\ PStore(ParseToken([PCur EXCEPT !.source =
                    IF tok = "EOF" THEN @ ELSE Append(@, tok)]))
  /\ UNCHANGED avars

\* most templates of `&&` and `||` chains that are pending at a time
MaxPending == 257

\* the numbers of templates a chain of the chain runs may have when it
\* ends, or when an operand of it is a chain in parentheses
ChainLengths == {1, MaxPending - 2, MaxPending - 1}

\* the stack of templates of the chain a block of the parser works on
ChecksOf(kind) ==
  IF kind \in {"and", "rewrite_and"} THEN "logical_and_checks"
  ELSE "logical_or_checks"

\* parse_logical_and_expression / parse_logical_or_expression up to the
\* first `&&` or `||`; operator is "and" or "or"
LogicalBegin(ps, operator) ==
  LET a == IF Top(ps.frames).kind = "global" THEN dumper_new_statement(ps) ELSE ps
      AfterStart(b, tmp) ==
        STACK_PUSH(IF operator = "and" THEN dump_logical_and_check_for_rewrite(b, tmp)
                   ELSE dump_logical_or_check_for_rewrite(b, tmp),
                   "frames", [NoFrame(operator) EXCEPT !.expr = tmp, !.count = 1])
      AfterTmp(t) ==
        AfterStart(IF operator = "and" THEN start_dumping_logical_and_checks(t.ps)
                   ELSE start_dumping_logical_or_checks(t.ps), t.op)
  IN AfterTmp(dump_variable_assignment_res(a, literal_operand("a")))

\* the operand the chain on top of the blocks has read: the value of the
\* chain in parentheses that has just ended, else the name `a`
OperandRead(ps) ==
  IF Top(ps.frames).operand.kind = "empty" THEN literal_operand("a")
  ELSE Top(ps.frames).operand

\* one pass of the loop of parse_logical_and_expression /
\* parse_logical_or_expression: an operand that is followed by another
\* `&&` or `||`; the block counts the templates of its chain
LogicalOperand(ps) ==
  LET frame == Top(ps.frames)
      AfterCheck(c) ==
        [c EXCEPT !.frames[Len(c.frames)].operand = empty_operand,
                  !.frames[Len(c.frames)].count = @ + 1]
      AfterAssignment(b) ==
        AfterCheck(IF frame.kind = "and"
                     THEN dump_logical_and_check_for_rewrite(b, frame.expr)
                     ELSE dump_logical_or_check_for_rewrite(b, frame.expr))
  IN AfterAssignment(dump_variable_assignment(ps, frame.expr, OperandRead(ps)))

\* the last operand of the chain; rewrite_logical_and_checks /
\* rewrite_logical_or_checks is entered and sets its index i
LogicalEnd(ps) ==
  LET frame == Top(ps.frames)
      a == dump_variable_assignment(ps, frame.expr, OperandRead(ps))
  IN [a EXCEPT
        !.frames[Len(a.frames)].kind =
          IF frame.kind = "and" THEN "rewrite_and" ELSE "rewrite_or",
        !.frames[Len(a.frames)].oc = Top(a.U8),
        !.call = [name |-> "rewrite_logical_checks",
                  arg |-> Top(a.U8),
                  kind |-> frame.kind,
                  before |-> [instrs |-> a.scopes[a.serializer_scope].instrs,
                              logical_and_checks |-> a.logical_and_checks,
                              logical_or_checks |-> a.logical_or_checks,
                              U8 |-> a.U8],
                  after |-> [once |-> {}, again |-> {}],
                  ret |-> 0,
                  raised |-> FALSE]]

\* one test `i < STACK_SIZE (checks)` of the loop of
\* rewrite_logical_and_checks / rewrite_logical_or_checks, with the pass it
\* lets in or with the code after the loop; i is a uint8_t.  The value of
\* the chain becomes the operand of the chain around it, if there is one.
LogicalRewriteStep(ps) ==
  LET frame == Top(ps.frames)
      checks == ps[ChecksOf(frame.kind)]
      i == frame.oc
      jmp_oc == checks[i + 1]
      a == Rewrite(ps, jmp_oc,
                   WithPosition(serializer_get_op_meta(ps, jmp_oc), 2, 3,
                                get_diff_from(ps, jmp_oc)))
      b == STACK_DROP(STACK_DROP(ps, ChecksOf(frame.kind),
                                 Len(checks) - Top(ps.U8)), "U8", 1)
      c == STACK_DROP(b, "frames", 1)
  IN IF i < Len(checks)
       THEN [a EXCEPT !.frames[Len(a.frames)].oc = (i + 1) % IdxModulus,
                      !.call.after.once = @ \cup {i},
                      !.call.after.again =
                        IF i \in ps.call.after.once THEN @ \cup {i} ELSE @]
       ELSE [c EXCEPT
               !.frames[Len(c.frames)].operand =
                 IF Top(c.frames).kind = "global" THEN empty_operand
                 ELSE frame.expr,
               !.call.ret = 1]

\* the parser reads an operand and `&&` or `||` after it: a chain begins,
\* at the start of the only statement of the program or in parentheses as
\* the last operand of a chain
LogicalChainBegin ==
  /\ pc = "parsing"
  /\ Len(frames) <= 2
  /\ \/ Top(frames).kind = "global" /\ InstrCounter(PCur) = 2
     \/ /\ Top(frames).kind \in {"and", "or"}
        /\ Top(frames).operand.kind = "empty"
        /\ Top(frames).count \in ChainLengths
        /\ call.name = "none"
        /\ Len(logical_and_checks) < MaxPending
        /\ Len(logical_or_checks) < MaxPending
  /\ \E operator \in {"and", "or"} : PStore(LogicalBegin(PCur, operator))
  /\ UNCHANGED avars

\* the parser reads one more operand, followed by the operator of the
\* chain
LogicalChainOperand ==
  /\ pc = "parsing"
  /\ Top(frames).kind \in {"and", "or"}
  /\ Len(PCur[ChecksOf(Top(frames).kind)]) < MaxPending
  /\ Top(frames).operand.kind = "empty"
  /\ PStore(LogicalOperand(PCur))
  /\ UNCHANGED avars

\* the parser reads the last operand of the chain
LogicalChainEnd ==
  /\ pc = "parsing"
  /\ Top(frames).kind \in {"and", "or"}
  /\ Top(frames).count \in ChainLengths
  /\ PStore(LogicalEnd(PCur))
  /\ UNCHANGED avars

\* the loop that rewrites the templates of the chain goes on
LogicalChainRewrite ==
  /\ pc = "parsing"
  /\ Top(frames).kind \in {"rewrite_and", "rewrite_or"}
  /\ PStore(LogicalRewriteStep(PCur))
  /\ UNCHANGED avars

\* the source ends after the statement
LogicalStatementEnd ==
  /\ pc = "parsing"
  /\ Top(frames).kind = "global"
  /\ InstrCounter(PCur) > 2
  /\ PStore(ParseToken(PCur))
  /\ UNCHANGED avars

\* most case clauses of one switch statement: each takes a register
\* for the result of its comparison, and the switch expression one
MaxCases == VM_REG_GENERAL_LAST - VM_REG_GENERAL_FIRST

\* numbers of case clauses of the switch statements of the sources
SwitchSizes == {0, MaxCases}

\* deepest nesting of switch statements
MaxNesting == 3

\* parse_switch_statement up to the first clause of `switch (a) {`; the
\* frame keeps the switch expression and the two stacks as they were
SwitchOpen(ps) ==
  LET AfterSwitchExpr(switch_expr) ==
        STACK_PUSH(start_dumping_case_clauses(switch_expr.ps), "frames",
          [NoFrame("switch_table") EXCEPT
             !.operand = switch_expr.op,
             !.saved = [case_clauses |-> ps.case_clauses, U8 |-> ps.U8]])
      AfterExpr(e) ==
        AfterSwitchExpr(dump_assignment_of_lhs_if_literal(e.ps, e.op))
  IN AfterExpr(ParseExpr(dumper_new_statement([ps EXCEPT !.call = NoCall]),
                         Name("a")))

\* the first loop of parse_switch_statement meets `case b:`; the frame
\* keeps the position of the jump dumped for the clause
SwitchCase(ps) ==
  LET top == Len(ps.frames)
      AfterCheck(a) ==
        IF a.pc = "done" THEN a
        ELSE [a EXCEPT !.frames[top].clauses = Append(@, "case"),
                       !.frames[top].jumps = Append(@, InstrCounter(a) - 1),
                       !.frames[top].count = @ + 1]
      AfterCaseExpr(case_expr) ==
        AfterCheck(dump_case_clause_check_for_rewrite(
                     case_expr.ps, ps.frames[top].operand, case_expr.op))
  IN AfterCaseExpr(ParseExpr(ps, Name("b")))

\* the first loop of parse_switch_statement meets `default:`
SwitchDefault(ps) ==
  LET top == Len(ps.frames)
      was_default == \E i \in 1..Len(ps.frames[top].clauses) :
                        ps.frames[top].clauses[i] = "default"
  IN IF was_default THEN RaiseEarlyError(ps, "JSP_EARLY_ERROR_SYNTAX")
     ELSE [ps EXCEPT !.frames[top].clauses = Append(@, "default")]

\* the first loop of parse_switch_statement meets the closing brace: the
\* jump to the default clause is dumped, the lexer goes back to the first
\* clause, and the label of the statement is pushed
SwitchTableEnd(ps) ==
  LET top == Len(ps.frames)
      AfterPush(a) ==
        [a EXCEPT !.frames[top].kind = "switch_bodies",
                  !.frames[top].jumps = Append(@, InstrCounter(ps))]
  IN AfterPush(jsp_label_push(dump_default_clause_check_for_rewrite(ps),
                              {JSP_LABEL_TYPE_UNNAMED_BREAKS}, ""))

\* one pass of the second loop of parse_switch_statement: the jump of the
\* clause is rewritten and its body parsed - nothing, `1;`, `break;`, or
\* up to the first clause of a switch statement; the frame keeps the
\* position the body begins at
SwitchBody(ps, body) ==
  LET top == Len(ps.frames)
      clause == ps.frames[top].clauses[Len(ps.frames[top].bodies) + 1]
      AfterLabel(a) ==
        CASE body = "" -> a
          [] body = "1;" -> ClauseStatement(a)
          [] body = "break;" -> JumpStatement(a, TRUE, "")
          [] body = "switch" -> SwitchOpen(a)
      AfterRewrite(a) ==
        AfterLabel([a EXCEPT !.frames[top].bodies =
                                Append(@, InstrCounter(a))])
  IN AfterRewrite(IF clause = "default" THEN rewrite_default_clause(ps)
                  ELSE rewrite_case_clause(ps))

\* parse_switch_statement after the second loop
SwitchEnd(ps) ==
  LET frame == Top(ps.frames)
      was_default == \E i \in 1..Len(frame.clauses) :
                        frame.clauses[i] = "default"
      AfterFinish(a, end_oc) ==
        [a EXCEPT !.frames = Drop(@, 1),
                  !.call = [name |-> "parse_switch_statement",
                            arg |-> Len(frame.clauses),
                            kind |-> "switch",
                            before |-> frame.saved,
                            after |-> [instrs |-> a.scopes[1].instrs,
                                       clauses |-> frame.clauses,
                                       jumps |-> frame.jumps,
                                       bodies |-> frame.bodies,
                                       end_oc |-> end_oc,
                                       case_clauses |-> a.case_clauses,
                                       U8 |-> a.U8],
                            ret |-> 0,
                            raised |-> FALSE]]
      AfterDefault(a) ==
        AfterFinish(finish_dumping_case_clauses(
                      jsp_label_rewrite_jumps_and_pop(a, InstrCounter(a))),
                    InstrCounter(a))
  IN AfterDefault(IF was_default THEN [ps EXCEPT !.call = NoCall]
                  ELSE rewrite_default_clause([ps EXCEPT !.call = NoCall]))

\* the bodies of the clause with index i of a switch statement nested
\* depth deep
BodiesAt(i, depth) ==
  IF i = 0 THEN {"1;"} \cup (IF depth < MaxNesting THEN {"switch"} ELSE {})
  ELSE IF i = 2 THEN {"break;"}
  ELSE IF i % 2 = 1 THEN {""}
  ELSE {"1;"}

\* the source begins with `switch (a) {`
SwitchBegin ==
  /\ pc = "parsing"
  /\ Top(frames).kind = "global"
  /\ InstrCounter(PCur) = 2
  /\ PStore(SwitchOpen(PCur))
  /\ UNCHANGED avars

\* the parser reads `case b:` and skips the body
SwitchCaseClause ==
  /\ pc = "parsing"
  /\ Top(frames).kind = "switch_table"
  /\ Top(frames).count < MaxCases
  /\ PStore(SwitchCase(PCur))
  /\ UNCHANGED avars

\* the parser reads `default:` and skips the body
SwitchDefaultClause ==
  /\ pc = "parsing"
  /\ Top(frames).kind = "switch_table"
  /\ Top(frames).count \in SwitchSizes
  /\ PStore(SwitchDefault(PCur))
  /\ UNCHANGED avars

\* the parser reads the closing brace for the first time
SwitchClausesEnd ==
  /\ pc = "parsing"
  /\ Top(frames).kind = "switch_table"
  /\ Top(frames).count \in SwitchSizes
  /\ PStore(SwitchTableEnd(PCur))
  /\ UNCHANGED avars

\* the parser reads the body of the next clause
SwitchClauseBody ==
  /\ pc = "parsing"
  /\ Top(frames).kind = "switch_bodies"
  /\ Len(Top(frames).bodies) < Len(Top(frames).clauses)
  /\ \E body \in BodiesAt(Len(Top(frames).bodies), Len(frames) - 1) :
       PStore(SwitchBody(PCur, body))
  /\ UNCHANGED avars

\* the parser reads the closing brace for the second time
SwitchCloses ==
  /\ pc = "parsing"
  /\ Top(frames).kind = "switch_bodies"
  /\ Len(Top(frames).bodies) = Len(Top(frames).clauses)
  /\ PStore(SwitchEnd(PCur))
  /\ UNCHANGED avars

\* how far around the limits the counts and the distances of the rewrite
\* runs go
MaxWindow == 2

\* numbers of elements of a list: none, and those around 253, 255 and 65535
ArgCounts ==
  {0} \cup ((253 - MaxWindow)..(256 + MaxWindow))
      \cup ((65535 - MaxWindow)..(65536 + MaxWindow))

\* numbers of instructions between a template and its target
Distances ==
  {1} \cup ((253 - MaxWindow)..(256 + MaxWindow))
      \cup ((65535 - MaxWindow)..(65536 + MaxWindow))

\* positions of a template
TemplatePositions == {0, 2, 65535}

VargListTypes ==
  {"VARG_FUNC_EXPR", "VARG_CONSTRUCT_EXPR", "VARG_CALL_EXPR", "VARG_FUNC_DECL",
   "VARG_ARRAY_DECL", "VARG_OBJ_DECL"}

\* serializer_get_current_instr_counter once n more instructions are
\* written after the one at oc
CounterAfter(oc, n) == (oc + n) % InstrCounterModulus

\* a statement begins with a list - the formal parameters of a function,
\* the arguments of a call or of `new`, the elements of an array or object
\* literal: its header is dumped as a template
ListBegin ==
  /\ pc = "parsing"
  /\ varg_headers = << >>
  /\ InstrCounter(PCur) = 2
  /\ \E vlt \in VargListTypes :
       PStore(dump_varg_header_for_rewrite(dumper_new_statement(PCur), vlt,
                                           literal_operand("f")))
  /\ UNCHANGED avars

\* the list ends after args_count elements (their code is not part of the
\* image kept here) and its header is rewritten
ListEnd ==
  /\ pc = "parsing"
  /\ varg_headers # << >>
  /\ \E args_count \in ArgCounts :
       LET oc == Top(varg_headers)
           r == rewrite_varg_header_set_args_count(PCur, args_count)
       IN PStore([r.ps EXCEPT !.call =
            [name |-> "rewrite_varg_header_set_args_count",
             arg |-> args_count,
             kind |-> serializer_get_op_meta(PCur, oc).op_idx,
             before |-> [om |-> serializer_get_op_meta(PCur, oc),
                         depth |-> Len(varg_headers)],
             after |-> [om |-> r.ps.scopes[1].instrs[oc + 1],
                        depth |-> Len(r.ps.varg_headers)],
             ret |-> r.op,
             raised |-> r.ps.pc = "done"]])
  /\ UNCHANGED avars

\* a template at position oc is rewritten when n instructions have been
\* written after it: what get_diff_from and split_instr_counter make of the
\* two positions; none of the rewrite functions raises an error
JumpRewrite ==
  /\ pc = "parsing"
  /\ \E oc \in TemplatePositions, n \in Distances :
       call' = [name |-> "get_diff_from",
                arg |-> n,
                kind |-> "none",
                before |-> oc,
                after |-> split_instr_counter(
                            DiffOfCounters(CounterAfter(oc, n), oc)),
                ret |-> 0,
                raised |-> FALSE]
  /\ UNCHANGED << avars, pc, source, pos, inside_eval, is_strict,
                  inside_function, scopes, serializer_scope,
                  lexer_strict_mode, labels, frames, U8, varg_headers,
                  function_ends, logical_and_checks, logical_or_checks,
                  conditional_checks, jumps_to_end, prop_getters,
                  next_iterations, case_clauses, tries, catches, finallies,
                  jsp_reg_id_stack, jsp_reg_next, jsp_reg_max_for_temps,
                  jsp_reg_max_for_local_var, jsp_reg_max_for_args,
                  early_error_type, status, out_bytecode_data_p, raised,
                  after_error, scope_exit >>

\* the source ends
ProgramEnd ==
  /\ pc = "parsing"
  /\ varg_headers = << >>
  /\ PStore(ParseToken(PCur))
  /\ UNCHANGED avars

(* --------------------------- specifications ---------------------------- *)

Init == AllocatorInit /\ ParserInit

Next == Alloc \/ Free \/ Compact \/ Finalize

Spec == Init /\ [][Next]_vars

ParserNext == ParseScript \/ ParseEval \/ ParseStep

ParserSpec == Init /\ [][ParserNext]_vars

AssignmentNext == ParseScript \/ AssignStep

AssignmentSpec == Init /\ [][AssignmentNext]_vars

StrictNext == ParseScript \/ ParseEval \/ StrictStep

StrictSpec == Init /\ [][StrictNext]_vars

OptimizerNext == ParseScript \/ ParseEval \/ OptStep

OptimizerSpec == Init /\ [][OptimizerNext]_vars

RegisterNext == ParseScript \/ RegStep

RegisterSpec == Init /\ [][RegisterNext]_vars

BalanceNext == ParseScript \/ BalanceStep

BalanceSpec == Init /\ [][BalanceNext]_vars

RewriteNext == ParseScript \/ ListBegin \/ ListEnd \/ JumpRewrite \/ ProgramEnd

RewriteSpec == Init /\ [][RewriteNext]_vars

SubstNext == ParseScript \/ SubstStep

SubstSpec == Init /\ [][SubstNext]_vars

LoopNext == ParseScript \/ LoopStep

LoopSpec == Init /\ [][LoopNext]_vars

ChainNext ==
  \/ ParseScript
  \/ LogicalChainBegin
  \/ LogicalChainOperand
  \/ LogicalChainEnd
  \/ LogicalChainRewrite
  \/ LogicalStatementEnd

ChainSpec == Init /\ [][ChainNext]_vars

SwitchNext ==
  \/ ParseScript
  \/ SwitchBegin
  \/ SwitchCaseClause
  \/ SwitchDefaultClause
  \/ SwitchClausesEnd
  \/ SwitchClauseBody
  \/ SwitchCloses
  \/ LogicalStatementEnd

SwitchSpec == Init /\ [][SwitchNext]_vars

StoreNext == ParseScript \/ StoreStep

StoreSpec == Init /\ [][StoreNext]_vars

(* ------------------------ properties: allocator ------------------------ *)

Live == Cardinality(allocated)

IsFirst(c) == c = MEM_POOL_SPACE_START(mem_heap_get_chunked_block_start(c))

OnFreeList(c) == c \in FreeSet(Cur)

\* C1: after every completed call the chunks reachable from
\* mem_free_chunk_p are as many as mem_free_chunks_number, the list ends in
\* NULL without meeting a chunk twice, and no allocated chunk is on it.
C1_FreeListMatchesCount ==
  /\ ~FreeList(Cur).cyclic
  /\ Len(FreeSeq(Cur)) = mem_free_chunks_number
  /\ FreeSet(Cur) \cap allocated = {}

\* the three calls have all happened: a compaction that released a pool
\* and put a candidate's first chunk back, with chunks free and allocated
C1_Witness ==
  /\ op.name = "compact"
  /\ op.released # {}
  /\ mem_free_chunks_number > 0
  /\ allocated # {}

FullyFree(p) == ChunksOf(p) \subseteq FreeSet(Cur)

\* C2: after mem_pools_remove_empty_pools no resident pool has all its
\* chunks free; when no chunk is allocated every pool is gone and the count
\* is 0, so the assertion of mem_pools_finalize holds.
C2_NoEmptyPoolLeft ==
  (op.name \in {"compact", "finalize"}) =>
     /\ \A p \in heap_blocks : ~FullyFree(p)
     /\ (allocated = {} => heap_blocks = {} /\ mem_free_chunks_number = 0)
     /\ fault = "none"

\* two pools' worth of chunks were allocated and all freed; the call
\* released both pools
C2_Witness ==
  /\ op.name = "compact"
  /\ Cardinality(op.released) = 2
  /\ peak = 2 * PoolChunks
  /\ mem_free_chunks_number = 0

\* C3: a pool with an allocated chunk is never released and keeps all its
\* free chunks on the common list, whatever its allocated chunks contain.
C3_OnlyEmptyPoolsReleased ==
  (op.name = "compact") =>
     /\ \A p \in op.released : ChunksOf(p) \cap allocated = {}
     /\ \A c \in allocated :
          /\ mem_heap_get_chunked_block_start(c) \in heap_blocks
          /\ mem[c].kind = "data" /\ mem[c].num = 0 /\ mem[c].local = NULL
          /\ ChunksOf(mem_heap_get_chunked_block_start(c)) \ allocated
               \subseteq FreeSet(Cur)

\* the second pass has run (another pool had its first chunk free) over a
\* free chunk whose pool's first chunk is allocated and holds the magic
\* number with an id in range
C3_Witness ==
  /\ op.name = "compact"
  /\ \E c \in allocated :
       /\ IsFirst(c)
       /\ mem[c].magic = hint_magic_num_value
       /\ mem[c].id < NumLists
       /\ \E d \in ChunksOf(mem_heap_get_chunked_block_start(c)) :
            OnFreeList(d)
  /\ \/ op.released # {}
     \/ \E d \in Chunks : IsFirst(d) /\ OnFreeList(d)

\* C4 (as claimed): when the free list is empty and the heap has no block,
\* mem_pools_alloc returns NULL without stopping the program.
C4_NullOnHeapExhaustion ==
  (op.name = "alloc" /\ op.longpath /\ op.block = NULL) =>
     (fault = "none" /\ op.ret = NULL)

\* C5: when the collector run by the heap freed chunks, the new block does
\* not become a pool, the chunk returned is one the collector freed and the
\* others it freed are on the free list, whose count is right.
C5_GcDuringLongPath ==
  (op.name = "alloc" /\ op.gc # {}) =>
     /\ fault = "none"
     /\ op.block # NULL /\ op.block \notin heap_blocks
     /\ heap_blocks = op.pre.pools
     /\ op.ret \in op.gc
     /\ (op.gc \ {op.ret}) \subseteq FreeSet(Cur)
     /\ Len(FreeSeq(Cur)) = mem_free_chunks_number
     /\ mem_free_chunks_number = Cardinality(op.gc) - 1

\* the collector freed two chunks while the heap looked for a block
C5_Witness ==
  /\ op.name = "alloc"
  /\ op.longpath
  /\ Cardinality(op.gc) = 2

\* C6: a call of mem_pools_remove_empty_pools right after another one
\* releases no pool and leaves the resident pools, the count and the set of
\* free chunks as they were.
C6_CompactIdempotent ==
  [][ (op.name = "compact" /\ op'.name = "compact") =>
        /\ op'.released = {}
        /\ heap_blocks' = heap_blocks
        /\ mem_free_chunks_number' = mem_free_chunks_number
        /\ FreeSet(Cur)' = FreeSet(Cur) ]_vars

\* a second call in a row, made while a pool with a free first chunk (which
\* all three passes handle) is resident
C6_Witness ==
  /\ op.name = "compact"
  /\ op.again
  /\ \E c \in Chunks : IsFirst(c) /\ OnFreeList(c)

\* C7 (as claimed): from any state, the empty free list included, alloc
\* followed by free of the returned chunk restores count, free set and
\* resident pools.
C7_AllocFreeRestoresAnyState ==
  (op.name = "free" /\ op.pair) =>
     /\ mem_free_chunks_number = op.pre.num
     /\ FreeSet(Cur) = Range(op.pre.free)
     /\ heap_blocks = op.pre.pools

\* C7 (amended): from a state whose free list is not empty, alloc followed
\* by free of the returned chunk restores the count, the free list and the
\* resident pools.
C7_AllocFreeRestoresNonEmpty ==
  (op.name = "free" /\ op.pair /\ op.pre.free # << >>) =>
     /\ mem_free_chunks_number = op.pre.num
     /\ FreeSeq(Cur) = op.pre.free
     /\ heap_blocks = op.pre.pools

\* an alloc / free pair made with more than one chunk free
C7_Witness ==
  /\ op.name = "free"
  /\ op.pair
  /\ Len(op.pre.free) > 1

CeilDiv(a, b) == (a + b - 1) \div b

\* C8: the resident pools are never more than ceil(peak / N), and a pool
\* is acquired only when the free list is empty and every chunk of every
\* resident pool is allocated.
C8_PoolsBoundedByPeak ==
  /\ [](Cardinality(heap_blocks) <= CeilDiv(peak, PoolChunks))
  /\ [][ ~(heap_blocks' \subseteq heap_blocks) =>
           /\ mem_free_chunk_p = NULL
           /\ \A p \in heap_blocks : ChunksOf(p) \subseteq allocated ]_vars

\* a second pool was acquired, and later only one chunk stayed allocated
\* in each of two resident pools
C8_Witness ==
  /\ Cardinality(heap_blocks) = 2
  /\ Live = 2
  /\ peak > PoolChunks
  /\ op.name = "compact"

(* ------------------------ properties: compiler ------------------------- *)

\* C9: a compilation returns JSP_STATUS_OK and a bytecode image exactly
\* when no early error was raised; after an early error it returns the
\* status of the error's type and a NULL image.
C9_StatusMatchesError ==
  (pc = "done") =>
     /\ (status = "JSP_STATUS_OK" /\ ~out_bytecode_data_p.null)
          <=> (raised = "none")
     /\ (raised = "JSP_EARLY_ERROR_SYNTAX") =>
          (status = "JSP_STATUS_SYNTAX_ERROR" /\ out_bytecode_data_p.null)
     /\ (raised = "JSP_EARLY_ERROR_REFERENCE") =>
          (status = "JSP_STATUS_REFERENCE_ERROR" /\ out_bytecode_data_p.null)

\* a reference error was raised inside a function body after instructions
\* had been dumped
C9_Witness ==
  /\ pc = "done"
  /\ raised = "JSP_EARLY_ERROR_REFERENCE"
  /\ Len(scopes) = 2
  /\ Len(scopes[2].instrs) > 4

\* C10 (as claimed): a compilation made after one that ended in an early
\* error returns what a freshly initialised compiler returns for the same
\* source; the error left inside_function false, the label set empty and
\* the serializer scope cleared.
C10_ResetAfterError ==
  /\ (pc = "done" /\ status # "JSP_STATUS_OK") =>
        (~inside_function /\ labels = << >> /\ serializer_scope = NULL)
  /\ (pc = "done" /\ after_error) =>
        ([status |-> status, out_bytecode_data_p |-> out_bytecode_data_p]
           = FreshResult(source, inside_eval, is_strict))

\* the operand an assignment or a prefix operation writes to
TargetOf(e) ==
  CASE e.t = "assign" -> e.lhs
    [] e.t = "pre_incr" -> e.e
    [] OTHER -> e

\* statements whose target is held in a register that no property getter
\* produced: the `this` register, the temporary of a number
HasInvalidTarget(tok) ==
  /\ tok \in ExprTokens
  /\ ExprOfToken(tok).t \in {"assign", "pre_incr"}
  /\ TargetOf(ExprOfToken(tok)).t \in {"this", "int"}

\* C11 (as claimed): an assignment, compound assignment or prefix
\* increment whose target is a register that no property getter produced
\* for it is never accepted: the parser does not get past it, the
\* compilation ends there with JSP_STATUS_REFERENCE_ERROR and never with
\* JSP_STATUS_OK.
C11_InvalidTargetRejected ==
  \A i \in 1..Len(source) :
    HasInvalidTarget(source[i]) =>
      /\ pos <= i
      /\ pc = "done" => (pos = i => status = "JSP_STATUS_REFERENCE_ERROR")
      /\ ~(pc = "done" /\ status = "JSP_STATUS_OK")

\* the instructions of the scope being written
CurrentInstrs == scopes[serializer_scope].instrs

\* the instructions the step appended to the scope being written
Appended == SubSeq(CurrentInstrs', Len(CurrentInstrs) + 1, Len(CurrentInstrs'))

\* the parser handled the statement tok without an early error
Handled(tok) ==
  /\ pc = "parsing"
  /\ pc' = "parsing"
  /\ source' = Append(source, tok)

IsGetterOf(om, t, obj_lit, prop_reg) ==
  /\ om.op_idx = "VM_OP_PROP_GETTER"
  /\ om.raw_args = << t, VM_IDX_REWRITE_LITERAL_UID, prop_reg >>
  /\ om.lit_id[2] = obj_lit

IsSetterOf(om, obj_lit, prop_reg, value_reg) ==
  /\ om.op_idx = "VM_OP_PROP_SETTER"
  /\ om.raw_args = << VM_IDX_REWRITE_LITERAL_UID, prop_reg, value_reg >>
  /\ om.lit_id[1] = obj_lit

\* C20: the statement `a.b += 1` leaves, after the code of the property
\* name and of the right-hand side and with no getter in between, a
\* prop_getter into a fresh temporary t with the object and the property of
\* the target, the addition with t as destination and left operand, and a
\* prop_setter storing t to the same object and property, and prop_getters
\* has the depth it had; `a.b = 1` leaves only the prop_setter after the
\* code of the name and of the right-hand side; and at every statement
\* start_dumping_assignment_expression takes the getter of a target off the
\* image, by moving the write position one instruction back, and pushes it
\* on prop_getters.
C20_CompoundAssignmentToProperty ==
  [][/\ Handled("a.b+=1") =>
          LET n == Appended
              name == n[1].raw_args[1]
              rhs == n[2].raw_args[1]
              t == n[3].raw_args[1]
          IN /\ Len(n) = 5
             /\ n[1].op_idx = "VM_OP_ASSIGNMENT" /\ n[1].lit_id[3] = "b"
             /\ n[2].op_idx = "VM_OP_ASSIGNMENT"
             /\ n[2].raw_args[3] = 1
             /\ IsGetterOf(n[3], t, "a", name)
             /\ t \notin {name, rhs}
             /\ t \in VM_REG_GENERAL_FIRST..VM_REG_GENERAL_LAST
             /\ n[4].op_idx = "VM_OP_ADDITION"
             /\ n[4].raw_args = << t, t, rhs >>
             /\ IsSetterOf(n[5], "a", name, t)
             /\ prop_getters' = prop_getters
     /\ Handled("a.b=1") =>
          LET n == Appended
          IN /\ Len(n) = 3
             /\ n[1].op_idx = "VM_OP_ASSIGNMENT" /\ n[1].lit_id[3] = "b"
             /\ n[2].op_idx = "VM_OP_ASSIGNMENT"
             /\ IsSetterOf(n[3], "a", n[1].raw_args[1], n[2].raw_args[1])
             /\ prop_getters' = prop_getters
     /\ pc = "parsing" =>
          LET lhs == ParseExpr(dumper_new_statement(PCur),
                               Member(Name("a"), "b"))
              a == start_dumping_assignment_expression(lhs.ps, lhs.op)
              before == lhs.ps.scopes[serializer_scope].instrs
          IN /\ a.scopes[serializer_scope].instrs
                  = SubSeq(before, 1, Len(before) - 1)
             /\ a.prop_getters = Append(prop_getters, before[Len(before)])
             /\ before[Len(before)].op_idx = "VM_OP_PROP_GETTER"]_vars

\* `a.b += 1` was compiled inside a function, after another statement
C20_Witness ==
  /\ pc = "parsing"
  /\ Len(source) = 3
  /\ source[1] = "function"
  /\ source[3] = "a.b+=1"
  /\ pos = 4
  /\ CurrentInstrs[Len(CurrentInstrs)].op_idx = "VM_OP_PROP_SETTER"
  /\ CurrentInstrs[Len(CurrentInstrs) - 1].op_idx = "VM_OP_ADDITION"

\* the blocks open after the first n tokens of a source, innermost last:
\* for each its kind, whether its scope is strict by the rules of
\* ECMA-262 14.1 (a "use strict" directive without escape sequences in the
\* directive prologue of the scope, or a strict enclosing scope), and
\* whether its directive prologue is still open
RECURSIVE OpenBlocks(_, _, _)
OpenBlocks(src, n, strict) ==
  IF n = 0
    THEN << [kind |-> "program", strict |-> strict, prologue |-> TRUE] >>
    ELSE LET b == OpenBlocks(src, n - 1, strict)
             top == b[Len(b)]
             tok == src[n]
             rest == SubSeq(b, 1, Len(b) - 1)
         IN CASE tok = "function" ->
                   Append(b, [kind |-> "function", strict |-> top.strict,
                              prologue |-> TRUE])
              [] tok = "with" ->
                   Append(Append(rest, [top EXCEPT !.prologue = FALSE]),
                          [kind |-> "with", strict |-> top.strict,
                           prologue |-> FALSE])
              [] tok = "}" -> IF Len(b) > 1 THEN rest ELSE b
              [] tok = "use_strict" ->
                   Append(rest, [top EXCEPT !.strict = @ \/ top.prologue])
              [] tok = "use_strict_esc" -> b
              [] OTHER -> Append(rest, [top EXCEPT !.prologue = FALSE])

\* is the code that follows the first n tokens strict code
StrictAfter(src, n, strict) ==
  LET b == OpenBlocks(src, n, strict) IN b[Len(b)].strict

\* C12: a `with` statement in strict code - code of a scope with a
\* "use strict" directive without escape sequences in its directive
\* prologue, or of a scope entered from strict code - ends the compilation
\* with JSP_STATUS_SYNTAX_ERROR at the `with` token, and a `with` statement
\* in other code does not; between the statements the strict mode of the
\* lexer and of the current scope are the strictness of the code at that
\* place, so after a function the strict mode of the enclosing scope is in
\* force again.
C12_WithBannedInStrictCode ==
  /\ \A i \in 1..Len(source) :
       source[i] = "with" =>
         IF StrictAfter(source, i - 1, is_strict)
           THEN /\ pos <= i
                /\ pos = i => /\ pc = "done"
                              /\ status = "JSP_STATUS_SYNTAX_ERROR"
           ELSE pos # i
  /\ pc = "parsing" =>
       /\ pos = Len(source) + 1
       /\ is_strict_mode(PCur) = StrictAfter(source, Len(source), is_strict)
       /\ lexer_strict_mode = is_strict_mode(PCur)

\* a `with` statement was refused in a function that inherits strict mode
\* from the program
C12_Witness ==
  /\ pc = "done"
  /\ status = "JSP_STATUS_SYNTAX_ERROR"
  /\ ~is_strict
  /\ source = << "use_strict", "function", "with" >>
  /\ pos = 3

\* a `with` statement was accepted after a strict function in a program
\* that is not strict
C12_WitnessAfterStrictFunction ==
  /\ pc = "parsing"
  /\ ~is_strict
  /\ source = << "function", "use_strict", "}", "with" >>
  /\ pos = 5

HasFlag(flags, bit) == (flags \div bit) % 2 = 1

\* the scope_code_flags instruction of a scope
ScopeCodeFlagsOf(tree) ==
  LET i == CHOOSE i \in 1..Len(tree.instrs) :
             IsMeta(tree.instrs[i], opcode_meta_type.SCOPE_CODE_FLAGS)
  IN tree.instrs[i].raw_args[2]

IsTemplate(om) ==
  \/ IsMeta(om, opcode_meta_type.SCOPE_CODE_FLAGS)
  \/ om.op_idx = "VM_OP_REG_VAR_DECL"

\* the two scopes hold the same instructions, the values written into the
\* two templates aside, and the same variables
SameCode(before, after) ==
  /\ Len(after.instrs) = Len(before.instrs)
  /\ \A i \in 1..Len(before.instrs) :
       \/ after.instrs[i] = before.instrs[i]
       \/ /\ IsTemplate(before.instrs[i])
          /\ after.instrs[i].op_idx = before.instrs[i].op_idx
          /\ after.instrs[i].raw_args[1] = before.instrs[i].raw_args[1]
             \/ before.instrs[i].op_idx = "VM_OP_REG_VAR_DECL"
  /\ after.variables = before.variables

\* a function body without eval, arguments, with, try, delete and nested
\* functions
IsEligible(tree) ==
  /\ tree.type = "function"
  /\ ~tree.ref_eval
  /\ ~tree.ref_arguments
  /\ ~tree.contains_with
  /\ ~tree.contains_try
  /\ ~tree.contains_delete
  /\ ~tree.contains_functions

\* the scope parse_source_element_list has just finished, as it was after
\* its last statement and as it was left
Finished == call.name = "parse_source_element_list"

\* C13: when parse_source_element_list finishes a scope that is not a
\* function body, or one with any of ref_eval, ref_arguments,
\* contains_with, contains_try, contains_delete, contains_functions set,
\* the instructions and the variables of the scope are those it had after
\* its last statement (the values of the two templates aside), and neither
\* ARGUMENTS_ON_REGISTERS nor NO_LEX_ENV is in its scope_code_flags.
C13_OnlyEligibleFunctionsOptimised ==
  (Finished /\ ~IsEligible(call.before.tree)) =>
    /\ SameCode(call.before.tree, call.after.tree)
    /\ ~HasFlag(ScopeCodeFlagsOf(call.after.tree),
                opcode_scope_code_flags_t.ARGUMENTS_ON_REGISTERS)
    /\ ~HasFlag(ScopeCodeFlagsOf(call.after.tree),
                opcode_scope_code_flags_t.NO_LEX_ENV)

\* a function with a with statement was left as it was, and so was the
\* code of an eval
C13_Witness ==
  /\ Finished
  /\ call.before.tree.type = "function"
  /\ call.before.tree.contains_with
  /\ call.before.tree.param_count = 1
  /\ call.before.tree.local_count = 1

\* an eligible function was optimised: its parameter and its variable are
\* registers
C13_WitnessOptimised ==
  /\ Finished
  /\ IsEligible(call.before.tree)
  /\ call.before.tree.param_count = 1
  /\ call.before.tree.local_count = 1
  /\ ~SameCode(call.before.tree, call.after.tree)
  /\ HasFlag(ScopeCodeFlagsOf(call.after.tree),
             opcode_scope_code_flags_t.NO_LEX_ENV)

\* the reg_var_decl instruction of a scope
RegVarDeclOf(tree) ==
  LET i == CHOOSE i \in 1..Len(tree.instrs) :
             tree.instrs[i].op_idx = "VM_OP_REG_VAR_DECL"
  IN tree.instrs[i]

\* the registers the optimisation gave to the parameters of the scope:
\* those above the region of the local variables, or of the temporaries
ArgRegsAllocated ==
  IF call.after.args = VM_IDX_EMPTY THEN 0
  ELSE call.after.args - (IF call.after.local_var # VM_IDX_EMPTY
                            THEN call.after.local_var
                            ELSE call.before.temps)

\* C14 (as claimed): after rewrite_reg_var_decl the reg_var_decl of the
\* scope reports jsp_reg_max_for_temps - VM_REG_GENERAL_FIRST + 1
\* temporaries, as many local-variable registers as local variables were
\* moved to registers and as many argument registers as were allocated for
\* the parameters, and both jsp_reg_max_for_local_var and
\* jsp_reg_max_for_args are VM_IDX_EMPTY again.
C14_RegVarDeclCounts ==
  Finished =>
    /\ RegVarDeclOf(call.after.tree).raw_args[1]
         = call.before.temps - VM_REG_GENERAL_FIRST + 1
    /\ RegVarDeclOf(call.after.tree).raw_args[2]
         = call.before.tree.local_count - call.after.tree.local_count
    /\ RegVarDeclOf(call.after.tree).raw_args[3] = ArgRegsAllocated
    /\ jsp_reg_max_for_local_var = VM_IDX_EMPTY
    /\ jsp_reg_max_for_args = VM_IDX_EMPTY

\* the top of the region of the local variables, or of the temporaries
\* when no local variable has a register
TopOfLocals ==
  IF call.after.local_var # VM_IDX_EMPTY THEN call.after.local_var
  ELSE call.before.temps

\* C15 (as claimed): when parse_source_element_list finishes an
\* optimisable function, its parameters have registers, and
\* ARGUMENTS_ON_REGISTERS and NO_LEX_ENV are in its scope_code_flags,
\* exactly when param_count <= VM_REG_GENERAL_LAST - (top of the region of
\* the local variables or temporaries); no parameter register is above
\* VM_REG_GENERAL_LAST; and NO_LEX_ENV is not set while a local variable
\* is left without a register.
C15_ArgsMovedWhenTheyFit ==
  (Finished /\ IsEligible(call.before.tree)) =>
    LET flags == ScopeCodeFlagsOf(call.after.tree)
        fits == call.before.tree.param_count
                  <= VM_REG_GENERAL_LAST - TopOfLocals
    IN /\ (call.after.args # VM_IDX_EMPTY) <=> fits
       /\ HasFlag(flags, opcode_scope_code_flags_t.ARGUMENTS_ON_REGISTERS)
            <=> fits
       /\ HasFlag(flags, opcode_scope_code_flags_t.NO_LEX_ENV) <=> fits
       /\ call.after.args # VM_IDX_EMPTY =>
            call.after.args <= VM_REG_GENERAL_LAST
       /\ HasFlag(flags, opcode_scope_code_flags_t.NO_LEX_ENV) =>
            call.after.tree.local_count = 0

\* every stack of the dumper is empty
AllEmpty(depths) == \A s \in DOMAIN depths : depths[s] = 0

\* C16: at dumper_finish_scope of a scope each of the stacks varg_headers,
\* function_ends, logical_and_checks, logical_or_checks,
\* conditional_checks, jumps_to_end, prop_getters, next_iterations,
\* case_clauses, tries, catches, finallies, U8 and jsp_reg_id_stack has the
\* depth it had at the dumper_new_scope of that scope, and when a
\* compilation ends with JSP_STATUS_OK all of them are empty.
C16_StacksBalanced ==
  /\ scope_exit.count > 0 =>
       scope_exit.at_finish_scope = scope_exit.at_new_scope
  /\ (pc = "done" /\ status = "JSP_STATUS_OK") => AllEmpty(scope_exit.at_end)

\* a function was finished inside a loop, where stacks are not empty, and
\* its body had pushed on the stacks
C16_Witness ==
  /\ scope_exit.count > 0
  /\ pc = "parsing"
  /\ Len(source) = 4
  /\ source[1] = "while"
  /\ source[2] = "function(x)"
  /\ source[3] \in {"a.b+=a&&b||(c?f(1):[1])", "switch{case 1:1;default:1;}"}
  /\ source[4] = "}"
  /\ scope_exit.at_new_scope.function_ends = 1
  /\ scope_exit.at_new_scope.next_iterations = 1

\* a compilation with a try statement ended with JSP_STATUS_OK
C16_WitnessEnd ==
  /\ pc = "done"
  /\ status = "JSP_STATUS_OK"
  /\ Len(source) = 4
  /\ source[1] = "try"
  /\ source[2] = "catch"
  /\ source[3] = "finally"

\* the image of a compilation that ended with JSP_STATUS_OK
Finalized == pc = "done" /\ status = "JSP_STATUS_OK"

\* C17 (as claimed): no operand byte of an instruction of a finalized
\* image is VM_IDX_REWRITE_GENERAL_CASE: every operand dumped as unknown
\* by a template has been rewritten, and with a value that is not 0xFD.
C17_NoRewriteSentinelInImage ==
  Finalized =>
    \A i \in 1..Len(out_bytecode_data_p.instrs) :
      \A k \in 1..3 :
        out_bytecode_data_p.instrs[i].raw_args[k] # VM_IDX_REWRITE_GENERAL_CASE

\* get_diff_from and split_instr_counter were applied to a template and
\* the position call.arg instructions after it
DistanceWritten == call.name = "get_diff_from"

\* C18 (as claimed): the two bytes written for a distance of at most 65535
\* instructions decode back to the distance, and a distance of 65536 or
\* more raises an error.
C18_DisplacementOrError ==
  DistanceWritten =>
    IF call.arg <= 65535
      THEN /\ ~call.raised
           /\ vm_calc_instr_counter_from_idx_idx(call.after[1], call.after[2])
                = call.arg
      ELSE call.raised

\* rewrite_varg_header_set_args_count has returned or raised
HeaderRewritten == call.name = "rewrite_varg_header_set_args_count"

\* the count of elements in the header of a list
ArgsCountIn(om) ==
  CASE om.op_idx = "VM_OP_FUNC_DECL_N" -> om.raw_args[2]
    [] om.op_idx \in {"VM_OP_FUNC_EXPR_N", "VM_OP_CALL_N", "VM_OP_CONSTRUCT_N"} ->
         om.raw_args[3]
    [] om.op_idx \in {"VM_OP_ARRAY_DECL", "VM_OP_OBJ_DECL"} ->
         om.raw_args[2] * 256 + om.raw_args[3]

\* C19: rewrite_varg_header_set_args_count with a count of at most 255 for
\* a function declaration, a function expression, a call or a construct,
\* and of at most 65535 for an array or object literal, writes the count
\* into the header on top of varg_headers - one byte, or a high and a low
\* byte that decode back to the count - and pops varg_headers; with a
\* greater count it raises an early SyntaxError, the header is as it was
\* and varg_headers is not popped.
C19_ArgsCountLimits ==
  HeaderRewritten =>
    LET limit == IF call.kind \in {"VM_OP_ARRAY_DECL", "VM_OP_OBJ_DECL"}
                   THEN 65535 ELSE 255
    IN IF call.arg <= limit
         THEN /\ ~call.raised
              /\ ArgsCountIn(call.after.om) = call.arg
              /\ \A k \in 1..3 : call.after.om.raw_args[k] \in 0..255
              /\ call.after.depth = call.before.depth - 1
         ELSE /\ call.raised
              /\ status = "JSP_STATUS_SYNTAX_ERROR"
              /\ call.after.om = call.before.om
              /\ call.after.depth = call.before.depth

\* an array literal of 65535 elements was accepted
C19_Witness ==
  /\ HeaderRewritten
  /\ call.kind = "VM_OP_ARRAY_DECL"
  /\ call.arg = 65535
  /\ ~call.raised
  /\ call.after.om.raw_args[2] = 255
  /\ call.after.om.raw_args[3] = 255

\* a call with 256 arguments was refused
C19_WitnessRefused ==
  /\ HeaderRewritten
  /\ call.kind = "VM_OP_CALL_N"
  /\ call.arg = 256
  /\ call.raised

(* ---------------------- properties: substitution ----------------------- *)

\* the replacements of identifiers by registers made in the scope that
\* parse_source_element_list has just finished
Replacements == IF Finished THEN call.after.replaced ELSE << >>

\* the slots the substitution leaves alone: the value of an assignment
\* whose type tag is not `variable`, and the name of a property in the
\* metas of an object literal
IsExemptSlot(om, slot) ==
  \/ /\ om.op_idx = "VM_OP_ASSIGNMENT"
     /\ om.raw_args[2] # opcode_arg_type_operand.OPCODE_ARG_TYPE_VARIABLE
     /\ slot = 3
  \/ /\ om.op_idx = "VM_OP_META"
     /\ om.raw_args[1] \in {opcode_meta_type.VARG_PROP_DATA,
                            opcode_meta_type.VARG_PROP_GETTER,
                            opcode_meta_type.VARG_PROP_SETTER}
     /\ slot = 2

\* C21: when dumper_try_replace_identifier_name_with_reg gives register r
\* to the name L of a function scope, every operand slot of the
\* instructions of the scope that carried the literal L outside the exempt
\* slots holds r with literal-id NOT_A_LITERAL afterwards, and L is left in
\* exempt slots only; the exempt slots, all other operands, all opcodes
\* and the number of instructions are unchanged; r is above every register
\* of the temporaries and differs from the register of every other name.
C21_IdentifierReplacedByRegister ==
  \A k \in 1..Len(Replacements) :
    LET c == Replacements[k]
    IN /\ Len(c.after) = Len(c.before)
       /\ \A i \in 1..Len(c.before) :
            /\ c.after[i].op_idx = c.before[i].op_idx
            /\ \A slot \in 1..3 :
                 IF /\ c.before[i].lit_id[slot] = c.lit_cp
                    /\ ~IsExemptSlot(c.before[i], slot)
                   THEN /\ c.after[i].raw_args[slot] = c.reg
                        /\ c.after[i].lit_id[slot] = NOT_A_LITERAL
                   ELSE /\ c.after[i].raw_args[slot] = c.before[i].raw_args[slot]
                        /\ c.after[i].lit_id[slot] = c.before[i].lit_id[slot]
            /\ \A slot \in 1..3 :
                 c.after[i].lit_id[slot] = c.lit_cp =>
                   IsExemptSlot(c.after[i], slot)
       /\ c.reg \notin VM_REG_GENERAL_FIRST..c.temps
       /\ c.reg <= VM_REG_GENERAL_LAST
       /\ \A j \in 1..Len(Replacements) : j # k => Replacements[j].reg # c.reg

\* the variable y of `function f (x) { var y = x + 1; x = 'y'; z = {y: x}; }`
\* and its parameter x got registers: the string 'y' and the property
\* name y are where they were, and the x of the object literal is a
\* register
C21_Witness ==
  /\ Len(Replacements) = 2
  /\ Replacements[1].lit_cp = "y"
  /\ ~Replacements[1].is_arg
  /\ Replacements[2].lit_cp = "x"
  /\ Replacements[2].is_arg
  /\ \E i \in 1..Len(Replacements[1].after) :
       /\ Replacements[1].after[i].op_idx = "VM_OP_ASSIGNMENT"
       /\ Replacements[1].after[i].lit_id[3] = "y"
       /\ Replacements[1].before[i].lit_id[1] = "x"
  /\ \E i \in 1..Len(Replacements[2].after) :
       /\ IsMeta(Replacements[2].after[i], opcode_meta_type.VARG_PROP_DATA)
       /\ Replacements[2].after[i].lit_id[2] = "y"
       /\ Replacements[2].after[i].raw_args[3] = Replacements[2].reg
       /\ Replacements[2].before[i].lit_id[3] = "x"

\* the header of the function whose scope has just been finished, as it was
\* after the last statement and as it was left
HeaderBefore == call.before.tree.instrs[1]

HeaderAfter == call.after.tree.instrs[1]

FunctionFinished == Finished /\ call.before.tree.type = "function"

\* C30 (as claimed): the substitution of identifiers by registers leaves
\* the header of the function (func_decl_n at position 0 of the scope) as
\* it was, the count of arguments aside: the operand with the name of the
\* function keeps its literal, also when a variable or a parameter of the
\* function has the name of the function.
C30_HeaderNameKept ==
  FunctionFinished =>
    /\ HeaderAfter.op_idx = HeaderBefore.op_idx
    /\ HeaderAfter.lit_id = HeaderBefore.lit_id
    /\ HeaderAfter.raw_args[1] = HeaderBefore.raw_args[1]

\* the removals of the vargs of the parameters made in the scope that
\* parse_source_element_list has just finished
Removals == IF Finished THEN call.after.removed ELSE << >>

\* the code of the function that has just been closed, as it was handed to
\* the scope around it
ClosedFunction ==
  LET around == scopes[Len(scopes)]
  IN around.children[Len(around.children)]

\* C22: while parse_source_element_list removes the vargs of the
\* parameters, after each removal the instruction at reg_var_decl_oc is
\* the reg_var_decl template, the instruction at scope_code_flags_oc is
\* the scope_code_flags meta and the top of function_ends is the position
\* of the function_end meta; rewrite_scope_code_flags and
\* rewrite_reg_var_decl then write the flags and the counts into those two
\* instructions, and rewrite_function_end writes into the function_end
\* meta the number of instructions from it to the end of the function.
C22_PositionsFollowRemovals ==
  /\ \A k \in 1..Len(Removals) :
       LET c == Removals[k]
       IN /\ c.instrs[c.reg_var_decl_oc + 1].op_idx = "VM_OP_REG_VAR_DECL"
          /\ IsMeta(c.instrs[c.scope_code_flags_oc + 1],
                    opcode_meta_type.SCOPE_CODE_FLAGS)
          /\ IsMeta(c.instrs[c.function_end + 1],
                    opcode_meta_type.FUNCTION_END)
          /\ Len(c.instrs) = Len(call.before.tree.instrs) - k
  /\ FunctionFinished =>
       LET tree == call.after.tree
           at == FunctionEndPos(tree.instrs, 1)
           function_end == ClosedFunction[at + 1]
       IN /\ IsMeta(tree.instrs[at + 2], opcode_meta_type.SCOPE_CODE_FLAGS)
          /\ tree.instrs[at + 2].raw_args[2] = call.after.scope_flags
          /\ tree.instrs[at + 3].op_idx = "VM_OP_REG_VAR_DECL"
          /\ tree.instrs[at + 3].raw_args
               = << call.after.counts.tmp_regs_num,
                    call.after.counts.local_var_regs_num,
                    call.after.counts.arg_regs_num >>
          /\ \A i \in 1..Len(tree.instrs) :
               i \notin {at + 2, at + 3} =>
                 /\ ~IsMeta(tree.instrs[i], opcode_meta_type.SCOPE_CODE_FLAGS)
                 /\ tree.instrs[i].op_idx # "VM_OP_REG_VAR_DECL"
          /\ IsMeta(function_end, opcode_meta_type.FUNCTION_END)
          /\ vm_calc_instr_counter_from_idx_idx(function_end.raw_args[2],
                                                function_end.raw_args[3])
               = Len(ClosedFunction) - at
          /\ \A i \in 1..Len(ClosedFunction) :
               i # at + 1 =>
                 ~IsMeta(ClosedFunction[i], opcode_meta_type.FUNCTION_END)
                 \/ i > Len(tree.instrs)

\* the two vargs of `function f (x, y) { var y = x + 1; return y; }` were
\* removed, and the function_end meta, now the second instruction, holds
\* the distance to the end of the function
C22_Witness ==
  /\ FunctionFinished
  /\ Len(Removals) = 2
  /\ Removals[2].function_end = 1
  /\ Removals[1].function_end = 2
  /\ call.before.tree.local_count = 1
  /\ Len(ClosedFunction) > 5
  /\ IsMeta(ClosedFunction[2], opcode_meta_type.FUNCTION_END)
  /\ ClosedFunction[2].raw_args[3] = Len(ClosedFunction) - 1

(* ------------------------ properties: jumps ---------------------------- *)

\* the labels popped by the loop that has just ended
Pops ==
  IF call.name = "parse_iterational_statement" THEN call.after.pops ELSE << >>

\* the position the first two operands of a jump encode
EncodedCounter(om) ==
  vm_calc_instr_counter_from_idx_idx(om.raw_args[1], om.raw_args[2])

Reverse(s) == [i \in 1..Len(s) |-> s[Len(s) + 1 - i]]

\* the jumps registered, oldest first, on one target of a popped label
\* were a chain before the walk, were walked from the newest to the
\* oldest, and encode their distance to the target after it
ChainResolved(p, registered, head, visited, target_oc) ==
  /\ head = IF registered = << >> THEN MAX_OPCODES
            ELSE registered[Len(registered)]
  /\ \A k \in 1..Len(registered) :
       LET jump_oc == registered[k]
       IN /\ p.before[jump_oc + 1].op_idx
               \in {"VM_OP_JMP_DOWN", "VM_OP_JMP_BREAK_CONTINUE"}
          /\ EncodedCounter(p.before[jump_oc + 1])
               = IF k = 1 THEN MAX_OPCODES ELSE registered[k - 1]
          /\ p.after[jump_oc + 1].op_idx = p.before[jump_oc + 1].op_idx
          /\ p.after[jump_oc + 1].raw_args[3] = p.before[jump_oc + 1].raw_args[3]
          /\ EncodedCounter(p.after[jump_oc + 1])
               = DiffOfCounters(target_oc, jump_oc)
  /\ visited = Reverse(registered)

\* C23: the break jumps and the continue jumps registered on a label each
\* form a chain through their position operands, the newest jump being the
\* head kept in the label and the oldest one encoding the end-of-chain
\* value; when the label is popped each registered jump is visited exactly
\* once, newest first, and is left encoding target - own position; no
\* other instruction and no other label changes
C23_JumpChainsResolved ==
  \A n \in 1..Len(Pops) :
    LET p == Pops[n]
        registered == {p.label.breaks[k] : k \in 1..Len(p.label.breaks)}
                        \cup {p.label.continues[k] :
                                k \in 1..Len(p.label.continues)}
    IN /\ ChainResolved(p, p.label.breaks, p.label.breaks_list_oc,
                        p.visited_breaks, p.break_tgt_oc)
       /\ ChainResolved(p, p.label.continues, p.label.continues_list_oc,
                        p.visited_continues, p.label.continue_tgt_oc)
       /\ Len(p.after) = Len(p.before)
       /\ \A i \in 1..Len(p.before) :
            (i - 1) \notin registered => p.after[i] = p.before[i]
       /\ p.labels_after = Drop(p.labels_before, 1)

\* a label with two breaks and a continue registered is popped while the
\* label of the loop around it has a jump pending
C23_Witness ==
  \E n \in 1..Len(Pops) :
    /\ Len(Pops[n].label.breaks) >= 2
    /\ Len(Pops[n].label.continues) >= 1
    /\ \E i \in 1..Len(Pops[n].labels_after) :
         Pops[n].labels_after[i].breaks # << >>

\* a loop has just ended
LoopEnded == call.name = "parse_iterational_statement"

\* the position of the forward jump a `while` or `for` loop begins with
JumpToEnd == Top(call.before.jumps_to_end)

\* the position dumper_set_next_interation_target recorded for the loop
NextIteration == Top(call.before.next_iterations)

\* the number of instructions of the scope when the body of the loop ended
BodyEnd == Len(call.before.instrs)

\* the position and the instruction of the closing jump of the loop
ClosingJumpPos == Len(call.after.instrs) - 1

ClosingJump == call.after.instrs[ClosingJumpPos + 1]

\* the position a jump up at position oc lands on
JumpUpTarget(om, oc) ==
  IF om.op_idx = "VM_OP_JMP_UP"
    THEN oc - vm_calc_instr_counter_from_idx_idx(om.raw_args[1], om.raw_args[2])
    ELSE oc - vm_calc_instr_counter_from_idx_idx(om.raw_args[2], om.raw_args[3])

\* C26: at the end of a `while` or `for` loop the forward jump dumped
\* before the body lands on the first instruction of the condition check,
\* which comes after the body (and after the increment code of a `for`);
\* the closing jump is the last instruction, an is_true_jmp_up, or a jmp_up
\* when the condition of the `for` is empty, and lands on the position
\* dumper_set_next_interation_target recorded, the first instruction of
\* the body; one entry of next_iterations and one of jumps_to_end is popped
C26_LoopJumpsLand ==
  (LoopEnded /\ call.kind \in {"while", "for"}) =>
    /\ call.after.instrs[JumpToEnd + 1].op_idx = "VM_OP_JMP_DOWN"
    /\ JumpToEnd + EncodedCounter(call.after.instrs[JumpToEnd + 1])
         = call.after.condition
    /\ call.after.condition >= BodyEnd
    /\ (call.kind = "while" \/ ~call.before.is_full)
         => call.after.condition = BodyEnd
    /\ (call.kind = "for" /\ call.before.is_full)
         => /\ call.after.condition > BodyEnd
            /\ call.after.instrs[call.after.condition].op_idx = "VM_OP_ADDITION"
    /\ ClosingJumpPos >= call.after.condition
    /\ ClosingJump.op_idx
         = IF call.kind = "for" /\ ~call.before.is_full
             THEN "VM_OP_JMP_UP" ELSE "VM_OP_IS_TRUE_JMP_UP"
    /\ JumpUpTarget(ClosingJump, ClosingJumpPos) = NextIteration
    /\ NextIteration = JumpToEnd + 1
    /\ call.after.next_iterations = Drop(call.before.next_iterations, 1)
    /\ call.after.jumps_to_end = Drop(call.before.jumps_to_end, 1)

\* a `for` loop with its three clauses ends whose body is a `while` loop
C26_Witness ==
  /\ LoopEnded /\ call.kind = "for" /\ call.before.is_full
  /\ \E i \in (NextIteration + 1)..BodyEnd :
       call.before.instrs[i].op_idx = "VM_OP_IS_TRUE_JMP_UP"

\* the position the jump down at position oc lands on once the loop ended
JumpDownTarget(oc) ==
  (oc + EncodedCounter(call.after.instrs[oc + 1])) % InstrCounterModulus

\* the positions of the continue and of the break jumps that target the
\* loop that has just ended, by its own label or by its label `a:`
ContinuesOfLoop ==
  UNION {{Pops[n].label.continues[k] : k \in 1..Len(Pops[n].label.continues)} :
           n \in 1..Len(Pops)}

BreaksOfLoop ==
  UNION {{Pops[n].label.breaks[k] : k \in 1..Len(Pops[n].label.breaks)} :
           n \in 1..Len(Pops)}

\* C27 as stated: the jump of a `continue` lands on the next-iteration
\* target of its loop, the position recorded at the loop header, and the
\* jump of a `break` on the first instruction after the loop
C27_ContinueToNextIteration ==
  LoopEnded =>
    /\ \A oc \in ContinuesOfLoop : JumpDownTarget(oc) = NextIteration
    /\ \A oc \in BreaksOfLoop : JumpDownTarget(oc) = Len(call.after.instrs)

\* C27: in a do-while, while or for loop the jump of a `continue` that
\* targets the loop lands on the continue target set up when the body has
\* ended, the first instruction after the body (the increment code of a
\* `for`, else the condition check), and the jump of a `break` on the
\* first instruction after the loop
C27_ContinueToContinueTarget ==
  LoopEnded =>
    /\ \A oc \in ContinuesOfLoop : JumpDownTarget(oc) = BodyEnd
    /\ \A oc \in BreaksOfLoop : JumpDownTarget(oc) = Len(call.after.instrs)

\* a `for` loop with increment code ends that has a continue and a break
C27_Witness ==
  /\ LoopEnded /\ call.kind = "for" /\ call.before.is_full
  /\ ContinuesOfLoop # {} /\ BreaksOfLoop # {}

(* ------------------- properties: chains of && and || -------------------- *)

\* rewrite_logical_and_checks / rewrite_logical_or_checks is in its loop
Rewriting ==
  /\ pc = "parsing"
  /\ Top(frames).kind \in {"rewrite_and", "rewrite_or"}

\* the templates of the chain that has been rewritten, as they were pushed
ChainBefore == call.before[ChecksOf(call.kind)]

\* the call of rewrite_logical_and_checks / rewrite_logical_or_checks that
\* has returned rewrote the templates from the saved base on, each once
\* and to the distance from its own position to the end of the chain, left
\* every other instruction as it was, cut the stack of templates back to
\* the base and popped the base
ChainRewritten ==
  (call.name = "rewrite_logical_checks" /\ call.ret = 1) =>
    LET instrs == scopes[serializer_scope].instrs
        base == call.arg
        own == {ChainBefore[k] : k \in (base + 1)..Len(ChainBefore)}
    IN /\ call.after.once = base..(Len(ChainBefore) - 1)
       /\ call.after.again = {}
       /\ Len(instrs) = Len(call.before.instrs)
       /\ \A i \in 1..Len(instrs) :
            IF (i - 1) \in own
              THEN instrs[i] = WithPosition(call.before.instrs[i], 2, 3,
                                            Len(instrs) - (i - 1))
              ELSE instrs[i] = call.before.instrs[i]
       /\ PCur[ChecksOf(call.kind)] = SubSeq(ChainBefore, 1, base)
       /\ U8 = Drop(call.before.U8, 1)
       /\ call.kind = "and" => logical_or_checks = call.before.logical_or_checks
       /\ call.kind = "or" => logical_and_checks = call.before.logical_and_checks

\* the loop that rewrites the templates of a chain makes no pass for an
\* index it has made a pass for before: with such a pass the loop is back
\* in a state it has been in, the index and the stack of templates being
\* the same, and never ends
LoopMakesProgress ==
  call.name = "rewrite_logical_checks" => call.after.again = {}

\* C24: for a chain of `&&` or of `||`, rewrite_logical_and_checks /
\* rewrite_logical_or_checks rewrites exactly the templates pushed since
\* the chain started, each to (counter at the end of the chain - own
\* position), restores the stack of templates to the saved base and pops
\* the base from U8, leaves the templates of an open chain around it
\* pending, and its loop ends for every length and nesting of chains, also
\* with more than 255 templates pending
C24_ChainRewrittenAndLoopEnds == ChainRewritten /\ LoopMakesProgress

(* ------------------------- properties: switch --------------------------- *)

SwitchEnded == call.name = "parse_switch_statement"

\* the position the jump at position oc lands on once the switch statement
\* ended, its distance being in the operands i and j
SwitchJumpTarget(oc, i, j) ==
  LET om == call.after.instrs[oc + 1]
  IN (oc + vm_calc_instr_counter_from_idx_idx(om.raw_args[i], om.raw_args[j]))
       % InstrCounterModulus

\* the position of the jump dumped for the case clause that is the
\* clause with index j of the statement, the default clause counted
CaseJump(j) ==
  call.after.jumps[Cardinality({m \in 1..j : call.after.clauses[m] = "case"})]

DefaultJump == call.after.jumps[Len(call.after.jumps)]

DefaultClauses ==
  {j \in 1..Len(call.after.clauses) : call.after.clauses[j] = "default"}

\* C25: when parse_switch_statement ends, the is_true_jmp_down of every
\* case clause lands on the first instruction of the body of the clause,
\* the jmp_down dumped after the table lands on the body of the default
\* clause or, without one, on the first instruction after the last body,
\* and case_clauses and U8 are as deep as before the statement
C25_SwitchJumpsLand ==
  SwitchEnded =>
    /\ \A j \in 1..Len(call.after.clauses) :
         call.after.clauses[j] = "case" =>
           /\ call.after.instrs[CaseJump(j) + 1].op_idx = "VM_OP_IS_TRUE_JMP_DOWN"
           /\ SwitchJumpTarget(CaseJump(j), 2, 3) = call.after.bodies[j]
    /\ call.after.instrs[DefaultJump + 1].op_idx = "VM_OP_JMP_DOWN"
    /\ \A j \in DefaultClauses :
         SwitchJumpTarget(DefaultJump, 1, 2) = call.after.bodies[j]
    /\ DefaultClauses = {} =>
         SwitchJumpTarget(DefaultJump, 1, 2) = call.after.end_oc
    /\ Len(call.after.case_clauses) = Len(call.before.case_clauses)
    /\ Len(call.after.U8) = Len(call.before.U8)

(* --------------------- properties: stores to a name --------------------- *)

\* the instruction writes its result to the variable x
StoresTo(om, x) ==
  /\ om.op_idx \in {"VM_OP_ASSIGNMENT", "VM_OP_ADDITION"}
  /\ om.raw_args[1] = VM_IDX_REWRITE_LITERAL_UID
  /\ om.lit_id[1] = x

\* the step left the instructions that were there as they were
EarlierKept ==
  SubSeq(CurrentInstrs', 1, Len(CurrentInstrs)) = CurrentInstrs

\* C29: a statement `x = e` never alters an instruction of an earlier
\* statement: the instruction that stores to x is one of the statement
\* itself - the last instruction of the code of e with its destination
\* redirected, or a separate assignment x <- e; for `x = y` it is the
\* assignment x <- y
C29_StoreLeavesEarlierCode ==
  [][/\ \A tok \in {"x=1", "x=y", "x=y+1"} :
          Handled(tok) =>
            /\ EarlierKept
            /\ \E i \in 1..Len(Appended) : StoresTo(Appended[i], "x")
     /\ Handled("x=y") =>
          \E i \in 1..Len(Appended) :
            /\ StoresTo(Appended[i], "x")
            /\ Appended[i].op_idx = "VM_OP_ASSIGNMENT"
            /\ Appended[i].lit_id[3] = "y"]_vars

(* --------------- properties: what the compaction leaves ----------------- *)

\* the chunks of the sequence are all different
NoRepeats(seq) == Cardinality({seq[i] : i \in 1..Len(seq)}) = Len(seq)

\* C28: a call of mem_pools_remove_empty_pools releases only pools whose
\* chunks are all free; afterwards every chunk that was free and lies in a
\* pool that stays is on the common list of free chunks exactly once, and
\* no other chunk is on it; mem_free_chunks_number is smaller by
\* MEM_POOL_CHUNKS_NUMBER for each released pool; the allocated chunks
\* and their contents are as before; and when no free chunk is the first
\* chunk of its pool the list, the order of its chunks included, and the
\* memory are as before
C28_CompactionFrame ==
  [][op'.name = "compact" =>
       LET released == op'.released
           free == FreeSet(Cur)
       IN /\ \A p \in released : p \in heap_blocks /\ ChunksOf(p) \subseteq free
          /\ heap_blocks' = heap_blocks \ released
          /\ ~FreeList(Cur)'.cyclic
          /\ NoRepeats(FreeSeq(Cur)')
          /\ FreeSet(Cur)'
               = {c \in free : mem_heap_get_chunked_block_start(c) \notin released}
          /\ mem_free_chunks_number'
               = mem_free_chunks_number - PoolChunks * Cardinality(released)
          /\ allocated' = allocated
          /\ \A c \in allocated : mem'[c] = mem[c]
          /\ (\A c \in free : ~IsFirst(c)) =>
               /\ released = {}
               /\ FreeSeq(Cur)' = FreeSeq(Cur)
               /\ mem' = mem
               /\ mem_free_chunk_p' = mem_free_chunk_p]_vars

\* a call released a pool while another pool, which stays, had its first
\* chunk and a second chunk free: the first chunk held the temporary
\* layout and the second was on the local list of the pool
C28_Witness ==
  /\ op.name = "compact"
  /\ op.released # {}
  /\ \E p \in heap_blocks :
       /\ ChunksOf(p) \cap allocated # {}
       /\ \E i, j \in 1..Len(op.pre.free) :
            /\ i # j
            /\ op.pre.free[i] = MEM_POOL_SPACE_START(p)
            /\ op.pre.free[j] \in ChunksOf(p)
       /\ MEM_POOL_SPACE_START(p) \in FreeSet(Cur)

====
